---------------------------- MODULE Spec2Model ----------------------------
(***************************************************************************)
(* Client layer of the Alicloud exporter: the token-bucket RateLimiter,    *)
(* the MetricCache and TagCache, and the Client operations built on them   *)
(* (GetMetricData, Health, Close).                                         *)
(*                                                                         *)
(* Goroutines are modelled as tasks with a program counter; every action   *)
(* is one atomic step of the Go code (a channel operation, a select, a     *)
(* critical section under one mutex, a remote call being issued or         *)
(* returning).  A Go select with several ready cases is a nondeterministic *)
(* choice between them.                                                    *)
(*                                                                         *)
(* Time: `now' is the clock read by time.Now()/time.Since() in the caches. *)
(* Durations are in model time units; only their order against elapsed     *)
(* time matters, so TTLs are scaled down.  The ticker and the 5 second     *)
(* timeout of Wait are events that may happen at any moment while they are *)
(* armed, which covers every real timing.                                  *)
(***************************************************************************)
EXTENDS Naturals, Integers, Sequences, FiniteSets, TLC

\* ---------------------------------------------------------------- bounds
MaxBurst == 2
NumTasks == 2
MaxTicks == 1
MaxTime == 3
NumData == 2
MaxMetrics == 2
MaxPoints == 1
MaxRDSMetrics == 11
MaxScrapeMetrics == 1

\* ------------------------------------------------------ program constants
\* 30 * time.Second, the TTL of the metric cache, in model time units
MetricTTL == 1
\* 5 * time.Minute, the TTL handed to the tag cache, in model time units
TagTTL == 2

Tasks == 1..NumTasks
Data == 1..NumData

\* config.AlicloudConfig namespaces and metric names, as character sequences
Namespaces == {<<"s">>}
MetricNames == {<<"a">>, <<"b">>}

\* cacheKey := fmt.Sprintf("%s:%s", namespace, metricName)
CacheKey(namespace, metricName) == namespace \o <<":">> \o metricName

Keys == {CacheKey(n, m) : n \in Namespaces, m \in MetricNames}

\* SLB instance IDs, the keys of the tag cache
InstanceIDs == {"lb1", "lb2"}
\* tag sets (map[string]string) with at most one tag, named by the key of that
\* tag; "" is the empty set
TagSets == {"", "team", "Team"}

NoEntry == [present |-> FALSE]
NoKey == <<>>

\* the regions of c.slbClients
Regions == {"r1", "r2"}
NoRegion == "none"
\* make(map[string]string): a tag set without tags
EmptyTags == ""
\* what one DescribeLoadBalancers call can return: per instance ID, the tags of
\* the load balancer with that ID, or "absent" when the listing has none
Responses == [InstanceIDs -> {"absent"} \cup TagSets]
\* make(map[string]map[string]string)
EmptyTagsMap == [i \in InstanceIDs |-> NoEntry]
NothingListed == [r \in Regions |-> 0]

\* ---------------------------------------------------------- collectors
\* serviceName of the three collectors
Services == {"redis", "rds", "slb"}
\* c.config.Namespace
Namespace == <<"s">>
\* c.config.Metrics: lists of metric names, repetitions allowed
MetricLists == UNION {[1..n -> MetricNames] : n \in 0..MaxMetrics}
\* values of the float64 fields of a data point
Values == {-1, 0, 7, 12}
\* MetricData: the fields the collectors read; the data points of the model
\* have no protocol, port or VIP
MetricDataOf(id, average, maximum, sum) ==
    [InstanceID |-> id, Protocol |-> "", Port |-> "", Vip |-> "",
     Average |-> average, Maximum |-> maximum, Sum |-> sum]
\* response.Datapoints: the empty string, a text that is no JSON list of
\* data points, or the JSON text of a list of data points
EmptyDatapoints == [kind |-> "empty"]
Malformed == [kind |-> "malformed"]
DatapointsOf(points) == [kind |-> "json", points |-> points]
\* json.Unmarshal([]byte(response.Datapoints), &metricData)
Unmarshal(datapoints) ==
    IF datapoints.kind = "json"
    THEN [err |-> FALSE, metricData |-> datapoints.points]
    ELSE [err |-> TRUE, metricData |-> <<>>]
\* the data points of the collection runs
CollectPoints == {MetricDataOf(id, 0, 7, 12) : id \in InstanceIDs \cup {""}}
CollectPayloads ==
    {EmptyDatapoints, Malformed}
        \cup {DatapointsOf(ps) : ps \in UNION {[1..n -> CollectPoints] : n \in 0..MaxPoints}}
\* one data point with any values
ValuePayloads ==
    {DatapointsOf(<<MetricDataOf("", a, m, sm)>>) : a \in Values, m \in Values, sm \in Values}
\* how a GetMetricData call of a collector goes on a cache miss: the Wait
\* fails, the remote call fails, or the remote call returns a response
FetchOutcomes(payloads) ==
    {[kind |-> "waitfail"], [kind |-> "remotefail"]}
        \cup {[kind |-> "ok", data |-> d] : d \in payloads}
\* maxConcurrent := 10
maxConcurrent == 10
NotFetched == [kind |-> "none"]
NoError == [err |-> FALSE, count |-> 0]
\* ch <- c.scrapeErrors; ch <- c.scrapeDuration
InternalSamples ==
    {[kind |-> "internal", name |-> "scrape_errors_total"],
     [kind |-> "internal", name |-> "scrape_duration_seconds"]}

VARIABLES
    \* RateLimiter
    burst,          \* rl.burst, cap(rl.tokens)
    tokens,         \* len(rl.tokens)
    tickerC,        \* len(rl.ticker.C), a channel of capacity 1
    tickerStopped,  \* rl.ticker.Stop() has run
    rlCtxDone,      \* rl.ctx is cancelled
    refillPc,       \* position of the refillTokens goroutine
    closePc,        \* position of the goroutine running Close
    closed,         \* a Close call has returned
    \* tasks (goroutines calling into the client)
    pc,             \* position of each task
    op,             \* operation each task runs
    ctxErr,         \* timeoutCtx.Err() of the task's Wait: "none" while it is live
    waitRes,        \* what Wait returned to the task
    key,            \* cache key of the task's GetMetricData
    result,         \* what the operation returned
    opTok,          \* tokens the task's current operation has consumed
    opRem,          \* remote calls the task's current operation has issued
    \* history of the rate limiter
    succ,           \* Wait calls that returned nil
    added,          \* tokens put into rl.tokens by refillTokens
    ticks,          \* ticks delivered by the ticker
    \* clock and caches
    now,
    mcache,         \* MetricCache.cache
    tcache,         \* TagCache.cache
    lastSet,        \* per key: value and time of the latest MetricCache.Set
    tagSetAt,       \* per instance ID: time of the latest TagCache.Set
    getRes,         \* the latest cache Get and what it returned
    \* Client
    muReaders,      \* c.mu read locks held
    muWriter,       \* c.mu write lock held
    \* GetSLBInstanceTags, per task
    instanceIDs,    \* the IDs the call was given
    tagsMap,        \* the result map built so far
    uncachedIDs,    \* the IDs the cache check did not find
    uncachedSet,    \* the IDs still outstanding
    regionsLeft,    \* entries of c.slbClients the range loop has not visited yet
    region,         \* the entry the range loop is at
    listed,         \* per region: DescribeLoadBalancers calls issued by this call
    failedRegions,  \* regions whose listing failed in this call
    seen,           \* outstanding IDs this call got in a listing
    prev,           \* the latest tag lookup that returned: its IDs and outcome
    \* a collector (RedisCollector, RDSCollector or SLBCollector) and its Collect
    service,        \* bc.serviceName
    config,         \* bc.config: Enabled and Metrics (Namespace is fixed)
    cpc,            \* position of the goroutine running Collect
    idx,            \* position of the range loop over c.config.Metrics
    errorCount,     \* errorCount of Collect
    emitted,        \* what this Collect has sent on ch
    collRes,        \* what Collect returned
    fetched,        \* per position of the metric list: what GetMetricData returned
    metricData,     \* CollectSLBMetric: the decoded data points
    gpc,            \* RDS: position of the goroutine of each list position
    semaphore,      \* RDS: len(semaphore)
    errorCh,        \* RDS: len(errorCh)
    scrapeErrors,   \* bc.scrapeErrors
    scrapeDuration, \* observations made in bc.scrapeDuration
    lastScrape,     \* bc.lastScrape, -1 while it is the zero time
    \* the Exporter and its Collect (a scrape)
    services,       \* e.config.Services: Enabled and Metrics of each service
    spc,            \* position of the goroutine running Exporter.Collect
    sctx,           \* ctx of the scrape: "none" before it is made, "live", "deadline"
                    \* after its 120 seconds, "canceled" after the deferred cancel
    up,             \* e.up
    totalScrapes,   \* e.totalScrapes
    eScrapeErrors,  \* e.scrapeErrors
    eScrapeDuration, \* observations made in e.scrapeDuration
    lastScrapeTime, \* e.lastScrapeTime, -1 while it is unset
    lastScrapeError, \* e.lastScrapeError
    eErrorCount,    \* errorCount of Exporter.Collect
    eErrorCh,       \* len(errorCh) of Exporter.Collect
    sent,           \* what Exporter.Collect itself has sent on ch, in order
    col,            \* per collector of the scrape: its goroutine and its Collect
    scrape2         \* a second call of Exporter.Collect, running beside the first

rlVars == <<burst, tokens, tickerC, tickerStopped, rlCtxDone, refillPc,
            closePc, closed, succ, added, ticks>>
taskVars == <<pc, op, ctxErr, waitRes, key, result, opTok, opRem>>
cacheVars == <<now, mcache, tcache, lastSet, tagSetAt, getRes>>
clientVars == <<muReaders, muWriter>>
tagVars == <<instanceIDs, tagsMap, uncachedIDs, uncachedSet, regionsLeft, region,
             listed, failedRegions, seen, prev>>
collVars == <<service, config, cpc, idx, errorCount, emitted, collRes, fetched,
              metricData, gpc, semaphore, errorCh, scrapeErrors,
              scrapeDuration, lastScrape>>
scrapeVars == <<services, spc, sctx, up, totalScrapes, eScrapeErrors, eScrapeDuration,
                lastScrapeTime, lastScrapeError, eErrorCount, eErrorCh, sent, col,
                scrape2>>
vars == <<rlVars, taskVars, cacheVars, clientVars, tagVars, collVars, scrapeVars>>

\* ============================================================ RateLimiter

\* the fill loop stops one token short
InitialTokens_short(b) == IF b > 0 THEN b - 1 ELSE 0

\* NewRateLimiter: "Fill initial tokens", the loop sends burst tokens
InitialTokens(b) == b

\* the send is not bounded by the capacity
TrySend_overflow(n, b) == n + 1

\* refillTokens, inner select: send a token unless the channel is full
TrySend(n, b) == IF n < b THEN n + 1 ELSE n

\* the token is read without being removed
TakeToken_peek(n) == n

\* receive from rl.tokens
TakeToken(n) == n - 1

\* the Done case is taken although the context is still live
TimeoutCtxDone_always(t) == t \in Tasks

\* timeoutCtx.Done() is ready: the parent was cancelled or the timer fired,
\* whichever came first set timeoutCtx.Err()
TimeoutCtxDone(t) == ctxErr[t] # "none"

NewRateLimiter ==
    /\ burst \in 0..MaxBurst
    /\ tokens = InitialTokens(burst)
    /\ tickerC = 0
    /\ tickerStopped = FALSE
    /\ rlCtxDone = FALSE
    /\ refillPc = "outer"
    /\ closePc = "idle"
    /\ closed = FALSE
    /\ succ = 0
    /\ added = 0
    /\ ticks = 0

\* the runtime delivers a tick on ticker.C (dropped when the channel is full)
TickerFire ==
    /\ ~tickerStopped
    /\ ticks < MaxTicks
    /\ tickerC' = 1
    /\ ticks' = ticks + 1
    /\ UNCHANGED <<burst, tokens, tickerStopped, rlCtxDone, refillPc, closePc,
                   closed, succ, added>>
    /\ UNCHANGED <<taskVars, cacheVars, clientVars>>
    /\ UNCHANGED tagVars
    /\ UNCHANGED collVars
    /\ UNCHANGED scrapeVars

\* refillTokens, outer select, case <-rl.ctx.Done(): return
RefillCtxDone ==
    /\ refillPc = "outer"
    /\ rlCtxDone
    /\ refillPc' = "done"
    /\ UNCHANGED <<burst, tokens, tickerC, tickerStopped, rlCtxDone, closePc,
                   closed, succ, added, ticks>>
    /\ UNCHANGED <<taskVars, cacheVars, clientVars>>
    /\ UNCHANGED tagVars
    /\ UNCHANGED collVars
    /\ UNCHANGED scrapeVars

\* refillTokens, outer select, case <-rl.ticker.C
RefillTick ==
    /\ refillPc = "outer"
    /\ tickerC = 1
    /\ tickerC' = 0
    /\ refillPc' = "inner"
    /\ UNCHANGED <<burst, tokens, tickerStopped, rlCtxDone, closePc,
                   closed, succ, added, ticks>>
    /\ UNCHANGED <<taskVars, cacheVars, clientVars>>
    /\ UNCHANGED tagVars
    /\ UNCHANGED collVars
    /\ UNCHANGED scrapeVars

\* refillTokens, inner select on a buffered channel: send or default
RefillSend ==
    /\ refillPc = "inner"
    /\ burst > 0
    /\ tokens' = TrySend(tokens, burst)
    /\ added' = added + (tokens' - tokens)
    /\ refillPc' = "outer"
    /\ UNCHANGED <<burst, tickerC, tickerStopped, rlCtxDone, closePc,
                   closed, succ, ticks>>
    /\ UNCHANGED <<taskVars, cacheVars, clientVars>>
    /\ UNCHANGED tagVars
    /\ UNCHANGED collVars
    /\ UNCHANGED scrapeVars

\* refillTokens, inner select on an unbuffered channel (burst = 0): the send
\* succeeds only by handing the token to a task blocked in Wait's select
RefillHandOff ==
    /\ refillPc = "inner"
    /\ burst = 0
    /\ \/ \E t \in Tasks :
            /\ pc[t] = "select"
            /\ pc' = [pc EXCEPT ![t] = "waited"]
            /\ waitRes' = [waitRes EXCEPT ![t] = "nil"]
            /\ opTok' = [opTok EXCEPT ![t] = @ + 1]
            /\ ctxErr' = [ctxErr EXCEPT ![t] = "none"]
            /\ succ' = succ + 1
            /\ added' = added + 1
       \/ \* no receiver is parked on the channel yet: default
          /\ UNCHANGED <<pc, waitRes, opTok, ctxErr, succ, added>>
    /\ refillPc' = "outer"
    /\ UNCHANGED <<burst, tokens, tickerC, tickerStopped, rlCtxDone, closePc,
                   closed, ticks>>
    /\ UNCHANGED <<op, key, result, opRem>>
    /\ UNCHANGED <<cacheVars, clientVars>>
    /\ UNCHANGED tagVars
    /\ UNCHANGED collVars
    /\ UNCHANGED scrapeVars

\* Wait is entered: timeoutCtx is derived from ctx (already done when ctx is
\* already cancelled) and the select is reached
EnterWait(t) ==
    /\ pc' = [pc EXCEPT ![t] = "select"]
    /\ \E e \in {"none", "canceled"} : ctxErr' = [ctxErr EXCEPT ![t] = e]
    /\ waitRes' = [waitRes EXCEPT ![t] = "none"]
    /\ UNCHANGED scrapeVars

\* a task calls rl.Wait(ctx) directly, with a live or an already cancelled ctx
WaitCall(t) ==
    /\ pc[t] = "idle"
    /\ EnterWait(t)
    /\ op' = [op EXCEPT ![t] = "Wait"]
    /\ opTok' = [opTok EXCEPT ![t] = 0]
    /\ opRem' = [opRem EXCEPT ![t] = 0]
    /\ UNCHANGED <<key, result>>
    /\ UNCHANGED <<rlVars, cacheVars, clientVars>>
    /\ UNCHANGED tagVars
    /\ UNCHANGED collVars
    /\ UNCHANGED scrapeVars

\* the 5 second timer of timeoutCtx fires while the task is in the select
TimerFire(t) ==
    /\ pc[t] = "select"
    /\ ctxErr[t] = "none"
    /\ ctxErr' = [ctxErr EXCEPT ![t] = "deadline"]
    /\ UNCHANGED <<pc, op, waitRes, key, result, opTok, opRem>>
    /\ UNCHANGED <<rlVars, cacheVars, clientVars>>
    /\ UNCHANGED tagVars
    /\ UNCHANGED collVars
    /\ UNCHANGED scrapeVars

\* the caller's context is cancelled while the task is in the select
CancelCtx(t) ==
    /\ pc[t] = "select"
    /\ ctxErr[t] = "none"
    /\ ctxErr' = [ctxErr EXCEPT ![t] = "canceled"]
    /\ UNCHANGED <<pc, op, waitRes, key, result, opTok, opRem>>
    /\ UNCHANGED <<rlVars, cacheVars, clientVars>>
    /\ UNCHANGED tagVars
    /\ UNCHANGED collVars
    /\ UNCHANGED scrapeVars

\* Wait, select case <-rl.tokens: return nil (the deferred cancel releases timeoutCtx)
WaitToken(t) ==
    /\ pc[t] = "select"
    /\ tokens > 0
    /\ tokens' = TakeToken(tokens)
    /\ succ' = succ + 1
    /\ pc' = [pc EXCEPT ![t] = "waited"]
    /\ waitRes' = [waitRes EXCEPT ![t] = "nil"]
    /\ opTok' = [opTok EXCEPT ![t] = @ + 1]
    /\ ctxErr' = [ctxErr EXCEPT ![t] = "none"]
    /\ UNCHANGED <<burst, tickerC, tickerStopped, rlCtxDone, refillPc, closePc,
                   closed, added, ticks>>
    /\ UNCHANGED <<op, key, result, opRem>>
    /\ UNCHANGED <<cacheVars, clientVars>>
    /\ UNCHANGED tagVars
    /\ UNCHANGED collVars
    /\ UNCHANGED scrapeVars

\* Wait, select case <-timeoutCtx.Done(): return timeoutCtx.Err()
WaitDone(t) ==
    /\ pc[t] = "select"
    /\ TimeoutCtxDone(t)
    /\ pc' = [pc EXCEPT ![t] = "waited"]
    /\ waitRes' = [waitRes EXCEPT ![t] = ctxErr[t]]
    /\ ctxErr' = [ctxErr EXCEPT ![t] = "none"]
    /\ UNCHANGED <<op, key, result, opTok, opRem>>
    /\ UNCHANGED <<rlVars, cacheVars, clientVars>>
    /\ UNCHANGED tagVars
    /\ UNCHANGED collVars
    /\ UNCHANGED scrapeVars

\* the direct caller of Wait takes the result and is free to call again
WaitReturn(t) ==
    /\ pc[t] = "waited"
    /\ op[t] = "Wait"
    /\ pc' = [pc EXCEPT ![t] = "idle"]
    /\ op' = [op EXCEPT ![t] = "none"]
    /\ ctxErr' = [ctxErr EXCEPT ![t] = "none"]
    /\ waitRes' = [waitRes EXCEPT ![t] = "none"]
    /\ opTok' = [opTok EXCEPT ![t] = 0]
    /\ UNCHANGED <<key, result, opRem>>
    /\ UNCHANGED <<rlVars, cacheVars, clientVars>>
    /\ UNCHANGED tagVars
    /\ UNCHANGED collVars
    /\ UNCHANGED scrapeVars

\* RateLimiter.Close is called directly
CloseCall ==
    /\ closePc = "idle"
    /\ closePc' = "cancel"
    /\ UNCHANGED <<burst, tokens, tickerC, tickerStopped, rlCtxDone, refillPc,
                   closed, succ, added, ticks>>
    /\ UNCHANGED <<taskVars, cacheVars, clientVars>>
    /\ UNCHANGED tagVars
    /\ UNCHANGED collVars
    /\ UNCHANGED scrapeVars

\* Close: rl.cancel()
CloseCancel ==
    /\ closePc = "cancel"
    /\ rlCtxDone' = TRUE
    /\ closePc' = "stop"
    /\ UNCHANGED <<burst, tokens, tickerC, tickerStopped, refillPc,
                   closed, succ, added, ticks>>
    /\ UNCHANGED <<taskVars, cacheVars, clientVars>>
    /\ UNCHANGED tagVars
    /\ UNCHANGED collVars
    /\ UNCHANGED scrapeVars

\* Close: rl.ticker.Stop(), and Close returns (to Client.Close when that holds c.mu)
CloseStop ==
    /\ closePc = "stop"
    /\ tickerStopped' = TRUE
    /\ closePc' = IF muWriter THEN "unlock" ELSE "idle"
    /\ closed' = TRUE
    /\ UNCHANGED <<burst, tokens, tickerC, rlCtxDone, refillPc, succ, added, ticks>>
    /\ UNCHANGED <<taskVars, cacheVars, clientVars>>
    /\ UNCHANGED tagVars
    /\ UNCHANGED collVars
    /\ UNCHANGED scrapeVars

\* ================================================ MetricCache, TagCache

\* the entry counts as expired as soon as its age reaches the TTL
IsExpired_early(entry, t) == t - entry.Timestamp >= entry.TTL

\* CacheEntry.IsExpired: time.Since(ce.Timestamp) > ce.TTL
IsExpired(entry, t) == t - entry.Timestamp > entry.TTL

\* the lookup never reports a hit
MetricCacheGet_miss(cache, k, t) == [data |-> 0, found |-> FALSE]

\* MetricCache.Get: (nil, false) when the key is absent or its entry expired
MetricCacheGet(cache, k, t) ==
    IF ~cache[k].present \/ IsExpired(cache[k], t)
    THEN [data |-> 0, found |-> FALSE]
    ELSE [data |-> cache[k].Data, found |-> TRUE]

\* Get deletes the entry it found expired
MetricCacheAfterGet_evict(cache, k, t) ==
    IF cache[k].present /\ IsExpired(cache[k], t)
    THEN [cache EXCEPT ![k] = NoEntry]
    ELSE cache

\* MetricCache.Get holds the read lock only: the map after Get is the map before
MetricCacheAfterGet(cache, k, t) == cache

\* a Set that stores nothing
MetricCacheSet_drop(cache, k, d, t) == cache

\* MetricCache.Set: a new CacheEntry{Data, Timestamp: time.Now(), TTL: mc.ttl}
MetricCacheSet(cache, k, d, t) ==
    [cache EXCEPT ![k] = [present |-> TRUE, Data |-> d, Timestamp |-> t, TTL |-> MetricTTL]]

\* a Clear that empties the map
MetricCacheClear_all(cache, t) == [k \in Keys |-> NoEntry]

\* MetricCache.Clear: delete every entry that is expired
MetricCacheClear(cache, t) ==
    [k \in Keys |-> IF cache[k].present /\ IsExpired(cache[k], t) THEN NoEntry ELSE cache[k]]

\* a Get that finds nothing
TagCacheGet_miss(cache, id) == [tags |-> "", found |-> FALSE]

\* TagCache.Get: tags, found := tc.cache[key]
TagCacheGet(cache, id) ==
    IF cache[id].present
    THEN [tags |-> cache[id].tags, found |-> TRUE]
    ELSE [tags |-> "", found |-> FALSE]

\* TagCache.Set: tc.cache[key] = tags
TagCacheSet(cache, id, tags) == [cache EXCEPT ![id] = [present |-> TRUE, tags |-> tags]]

\* the clock moves on
Advance ==
    /\ now < MaxTime
    /\ now' = now + 1
    /\ getRes' = [kind |-> "none"]
    /\ UNCHANGED <<mcache, tcache, lastSet, tagSetAt>>
    /\ UNCHANGED <<rlVars, taskVars, clientVars>>
    /\ UNCHANGED tagVars
    /\ UNCHANGED collVars
    /\ UNCHANGED scrapeVars

\* a caller runs mc.Get(k)
McGet(k) ==
    /\ getRes' = [kind |-> "metric", key |-> k, r |-> MetricCacheGet(mcache, k, now)]
    /\ mcache' = MetricCacheAfterGet(mcache, k, now)
    /\ UNCHANGED <<now, tcache, lastSet, tagSetAt>>
    /\ UNCHANGED <<rlVars, taskVars, clientVars>>
    /\ UNCHANGED tagVars
    /\ UNCHANGED collVars
    /\ UNCHANGED scrapeVars

\* a Set that keeps the creation time of the entry it replaces
McSet_keepTime(k, d) ==
    /\ mcache' = [mcache EXCEPT ![k] =
                     [present |-> TRUE, Data |-> d,
                      Timestamp |-> IF mcache[k].present THEN mcache[k].Timestamp ELSE now,
                      TTL |-> MetricTTL]]
    /\ lastSet' = [lastSet EXCEPT ![k] = [present |-> TRUE, data |-> d, at |-> now]]
    /\ getRes' = [kind |-> "none"]
    /\ UNCHANGED <<now, tcache, tagSetAt>>
    /\ UNCHANGED <<rlVars, taskVars, clientVars>>
    /\ UNCHANGED tagVars
    /\ UNCHANGED collVars
    /\ UNCHANGED scrapeVars

\* a caller runs mc.Set(k, d)
McSet(k, d) ==
    /\ mcache' = MetricCacheSet(mcache, k, d, now)
    /\ lastSet' = [lastSet EXCEPT ![k] = [present |-> TRUE, data |-> d, at |-> now]]
    /\ getRes' = [kind |-> "none"]
    /\ UNCHANGED <<now, tcache, tagSetAt>>
    /\ UNCHANGED <<rlVars, taskVars, clientVars>>
    /\ UNCHANGED tagVars
    /\ UNCHANGED collVars
    /\ UNCHANGED scrapeVars

\* a caller runs mc.Clear()
McClear ==
    /\ mcache' = MetricCacheClear(mcache, now)
    /\ getRes' = [kind |-> "none"]
    /\ UNCHANGED <<now, tcache, lastSet, tagSetAt>>
    /\ UNCHANGED <<rlVars, taskVars, clientVars>>
    /\ UNCHANGED tagVars
    /\ UNCHANGED collVars
    /\ UNCHANGED scrapeVars

\* a caller runs tc.Get(id)
TcGet(id) ==
    /\ getRes' = [kind |-> "tag", key |-> id, r |-> TagCacheGet(tcache, id)]
    /\ UNCHANGED <<now, mcache, tcache, lastSet, tagSetAt>>
    /\ UNCHANGED <<rlVars, taskVars, clientVars>>
    /\ UNCHANGED tagVars
    /\ UNCHANGED collVars
    /\ UNCHANGED scrapeVars

\* a caller runs tc.Set(id, tags)
TcSet(id, tags) ==
    /\ tcache' = TagCacheSet(tcache, id, tags)
    /\ tagSetAt' = [tagSetAt EXCEPT ![id] = [present |-> TRUE, at |-> now]]
    /\ getRes' = [kind |-> "none"]
    /\ UNCHANGED <<now, mcache, lastSet>>
    /\ UNCHANGED <<rlVars, taskVars, clientVars>>
    /\ UNCHANGED tagVars
    /\ UNCHANGED collVars
    /\ UNCHANGED scrapeVars


\* ================================================================ Client

\* the task's operation has returned; the goroutine is free for the next call
Return(t) ==
    /\ pc[t] = "ret"
    /\ pc' = [pc EXCEPT ![t] = "idle"]
    /\ op' = [op EXCEPT ![t] = "none"]
    /\ ctxErr' = [ctxErr EXCEPT ![t] = "none"]
    /\ waitRes' = [waitRes EXCEPT ![t] = "none"]
    /\ key' = [key EXCEPT ![t] = NoKey]
    /\ result' = [result EXCEPT ![t] = [err |-> FALSE, data |-> 0]]
    /\ opTok' = [opTok EXCEPT ![t] = 0]
    /\ opRem' = [opRem EXCEPT ![t] = 0]
    /\ instanceIDs' = [instanceIDs EXCEPT ![t] = {}]
    /\ tagsMap' = [tagsMap EXCEPT ![t] = EmptyTagsMap]
    /\ uncachedIDs' = [uncachedIDs EXCEPT ![t] = {}]
    /\ uncachedSet' = [uncachedSet EXCEPT ![t] = {}]
    /\ regionsLeft' = [regionsLeft EXCEPT ![t] = {}]
    /\ region' = [region EXCEPT ![t] = NoRegion]
    /\ listed' = [listed EXCEPT ![t] = NothingListed]
    /\ failedRegions' = [failedRegions EXCEPT ![t] = {}]
    /\ seen' = [seen EXCEPT ![t] = {}]
    /\ prev' = IF op[t] = "GetSLBInstanceTags"
               THEN [present |-> TRUE, ids |-> instanceIDs[t], err |-> result[t].err]
               ELSE prev
    /\ UNCHANGED <<rlVars, cacheVars, clientVars>>
    /\ UNCHANGED collVars
    /\ UNCHANGED scrapeVars

\* GetMetricData: build the cache key and check the cache; a hit returns the
\* cached data, a miss goes on to c.rateLimiter.Wait(ctx)
GetMetricDataCall(t, namespace, metricName) ==
    /\ pc[t] = "idle"
    /\ LET cacheKey == CacheKey(namespace, metricName)
           got == MetricCacheGet(mcache, cacheKey, now)
       IN  /\ key' = [key EXCEPT ![t] = cacheKey]
           /\ op' = [op EXCEPT ![t] = "GetMetricData"]
           /\ opTok' = [opTok EXCEPT ![t] = 0]
           /\ opRem' = [opRem EXCEPT ![t] = 0]
           /\ mcache' = MetricCacheAfterGet(mcache, cacheKey, now)
           /\ IF got.found
              THEN /\ pc' = [pc EXCEPT ![t] = "ret"]
                   /\ result' = [result EXCEPT ![t] = [err |-> FALSE, data |-> got.data]]
                   /\ UNCHANGED <<ctxErr, waitRes>>
              ELSE /\ EnterWait(t)
                   /\ UNCHANGED result
    /\ UNCHANGED <<now, tcache, lastSet, tagSetAt, getRes>>
    /\ UNCHANGED <<rlVars, clientVars>>
    /\ UNCHANGED tagVars
    /\ UNCHANGED collVars
    /\ UNCHANGED scrapeVars

\* GetMetricData: Wait returned an error, "rate limiter wait failed" is returned
GetMetricDataWaitFailed(t) ==
    /\ pc[t] = "waited"
    /\ op[t] = "GetMetricData"
    /\ waitRes[t] \in {"canceled", "deadline"}
    /\ pc' = [pc EXCEPT ![t] = "ret"]
    /\ result' = [result EXCEPT ![t] = [err |-> TRUE, data |-> 0]]
    /\ UNCHANGED <<op, ctxErr, waitRes, key, opTok, opRem>>
    /\ UNCHANGED <<rlVars, cacheVars, clientVars>>
    /\ UNCHANGED tagVars
    /\ UNCHANGED collVars
    /\ UNCHANGED scrapeVars

\* GetMetricData: c.mu.RLock() (a reader waits while a writer holds or awaits
\* c.mu), then c.cmsClient.DescribeMetricLast(request) is issued; the call
\* takes no context
GetMetricDataRemote(t) ==
    /\ pc[t] = "waited"
    /\ op[t] = "GetMetricData"
    /\ waitRes[t] = "nil"
    /\ ~muWriter
    /\ closePc # "lockwait"
    /\ muReaders' = muReaders + 1
    /\ opRem' = [opRem EXCEPT ![t] = @ + 1]
    /\ pc' = [pc EXCEPT ![t] = "remote"]
    /\ UNCHANGED muWriter
    /\ UNCHANGED <<op, ctxErr, waitRes, key, result, opTok>>
    /\ UNCHANGED <<rlVars, cacheVars>>
    /\ UNCHANGED tagVars
    /\ UNCHANGED collVars
    /\ UNCHANGED scrapeVars

\* a failed remote call whose error response is stored in the cache
GetMetricDataRemoteFailed_caching(t) ==
    /\ pc[t] = "remote"
    /\ op[t] = "GetMetricData"
    /\ pc' = [pc EXCEPT ![t] = "ret"]
    /\ result' = [result EXCEPT ![t] = [err |-> TRUE, data |-> 0]]
    /\ mcache' = [mcache EXCEPT ![key[t]] = [present |-> TRUE, Data |-> 1,
                                             Timestamp |-> now, TTL |-> MetricTTL]]
    /\ muReaders' = muReaders - 1
    /\ UNCHANGED muWriter
    /\ UNCHANGED <<op, ctxErr, waitRes, key, opTok, opRem>>
    /\ UNCHANGED <<now, tcache, lastSet, tagSetAt, getRes>>
    /\ UNCHANGED rlVars
    /\ UNCHANGED tagVars
    /\ UNCHANGED collVars
    /\ UNCHANGED scrapeVars

\* GetMetricData: the remote call fails; the error is returned, c.mu is released
GetMetricDataRemoteFailed(t) ==
    /\ pc[t] = "remote"
    /\ op[t] = "GetMetricData"
    /\ pc' = [pc EXCEPT ![t] = "ret"]
    /\ result' = [result EXCEPT ![t] = [err |-> TRUE, data |-> 0]]
    /\ muReaders' = muReaders - 1
    /\ UNCHANGED muWriter
    /\ UNCHANGED <<op, ctxErr, waitRes, key, opTok, opRem>>
    /\ UNCHANGED <<rlVars, cacheVars>>
    /\ UNCHANGED tagVars
    /\ UNCHANGED collVars
    /\ UNCHANGED scrapeVars

\* GetMetricData: the remote call returns response d;
\* c.cache.Set(cacheKey, response); return response; c.mu is released
GetMetricDataRemoteOk(t, d) ==
    /\ pc[t] = "remote"
    /\ op[t] = "GetMetricData"
    /\ mcache' = MetricCacheSet(mcache, key[t], d, now)
    /\ lastSet' = [lastSet EXCEPT ![key[t]] = [present |-> TRUE, data |-> d, at |-> now]]
    /\ result' = [result EXCEPT ![t] = [err |-> FALSE, data |-> d]]
    /\ pc' = [pc EXCEPT ![t] = "ret"]
    /\ muReaders' = muReaders - 1
    /\ UNCHANGED muWriter
    /\ UNCHANGED <<op, ctxErr, waitRes, key, opTok, opRem>>
    /\ UNCHANGED <<now, tcache, tagSetAt, getRes>>
    /\ UNCHANGED rlVars
    /\ UNCHANGED tagVars
    /\ UNCHANGED collVars
    /\ UNCHANGED scrapeVars

\* Health: c.cmsClient.DescribeMetricMetaList(request) is issued
HealthCall(t) ==
    /\ pc[t] = "idle"
    /\ op' = [op EXCEPT ![t] = "Health"]
    /\ opTok' = [opTok EXCEPT ![t] = 0]
    /\ opRem' = [opRem EXCEPT ![t] = 1]
    /\ pc' = [pc EXCEPT ![t] = "remote"]
    /\ UNCHANGED <<muReaders, muWriter>>
    /\ UNCHANGED <<ctxErr, waitRes, key, result>>
    /\ UNCHANGED <<rlVars, cacheVars>>
    /\ UNCHANGED tagVars
    /\ UNCHANGED collVars
    /\ UNCHANGED scrapeVars

\* Health: the remote call returns, nil or "health check failed"
HealthReturn(t) ==
    /\ pc[t] = "remote"
    /\ op[t] = "Health"
    /\ \E failed \in BOOLEAN :
          result' = [result EXCEPT ![t] = [err |-> failed, data |-> 0]]
    /\ pc' = [pc EXCEPT ![t] = "ret"]
    /\ UNCHANGED <<op, ctxErr, waitRes, key, opTok, opRem>>
    /\ UNCHANGED <<rlVars, cacheVars, clientVars>>
    /\ UNCHANGED tagVars
    /\ UNCHANGED collVars
    /\ UNCHANGED scrapeVars

\* Client.Close is called and waits for c.mu.Lock()
ClientCloseCall ==
    /\ closePc = "idle"
    /\ closePc' = "lockwait"
    /\ UNCHANGED <<burst, tokens, tickerC, tickerStopped, rlCtxDone, refillPc,
                   closed, succ, added, ticks>>
    /\ UNCHANGED <<taskVars, cacheVars, clientVars>>
    /\ UNCHANGED tagVars
    /\ UNCHANGED collVars
    /\ UNCHANGED scrapeVars

\* a Lock that is granted while readers hold c.mu
ClientCloseLock_noWait ==
    /\ closePc = "lockwait"
    /\ ~muWriter
    /\ muWriter' = TRUE
    /\ closePc' = "cancel"
    /\ UNCHANGED muReaders
    /\ UNCHANGED <<burst, tokens, tickerC, tickerStopped, rlCtxDone, refillPc,
                   closed, succ, added, ticks>>
    /\ UNCHANGED <<taskVars, cacheVars>>
    /\ UNCHANGED tagVars
    /\ UNCHANGED collVars
    /\ UNCHANGED scrapeVars

\* Client.Close: c.mu.Lock() is granted once no reader holds c.mu
ClientCloseLock ==
    /\ closePc = "lockwait"
    /\ muReaders = 0
    /\ ~muWriter
    /\ muWriter' = TRUE
    /\ closePc' = "cancel"
    /\ UNCHANGED muReaders
    /\ UNCHANGED <<burst, tokens, tickerC, tickerStopped, rlCtxDone, refillPc,
                   closed, succ, added, ticks>>
    /\ UNCHANGED <<taskVars, cacheVars>>
    /\ UNCHANGED tagVars
    /\ UNCHANGED collVars
    /\ UNCHANGED scrapeVars

\* Client.Close: c.rateLimiter.Close() has returned, the deferred c.mu.Unlock() runs
ClientCloseUnlock ==
    /\ closePc = "unlock"
    /\ muWriter' = FALSE
    /\ closePc' = "idle"
    /\ UNCHANGED muReaders
    /\ UNCHANGED <<burst, tokens, tickerC, tickerStopped, rlCtxDone, refillPc,
                   closed, succ, added, ticks>>
    /\ UNCHANGED <<taskVars, cacheVars>>
    /\ UNCHANGED tagVars
    /\ UNCHANGED collVars
    /\ UNCHANGED scrapeVars

\* ---------------------------------------------------- GetSLBInstanceTags

\* GetSLBInstanceTags(ctx, ids): no IDs, an empty map; else the cache check:
\* an ID found in c.tagCache goes to tagsMap, the others to uncachedIDs; with no
\* uncached ID the call returns, else uncachedSet is built and the range over
\* c.slbClients starts
GetSLBInstanceTagsCall(t, ids) ==
    /\ pc[t] = "idle"
    /\ LET hits == {id \in ids : TagCacheGet(tcache, id).found}
           misses == ids \ hits
       IN  /\ instanceIDs' = [instanceIDs EXCEPT ![t] = ids]
           /\ tagsMap' = [tagsMap EXCEPT ![t] =
                  [id \in InstanceIDs |->
                      IF id \in hits
                      THEN [present |-> TRUE, tags |-> TagCacheGet(tcache, id).tags]
                      ELSE NoEntry]]
           /\ uncachedIDs' = [uncachedIDs EXCEPT ![t] = misses]
           /\ uncachedSet' = [uncachedSet EXCEPT ![t] = misses]
           /\ regionsLeft' = [regionsLeft EXCEPT ![t] = IF misses = {} THEN {} ELSE Regions]
           /\ pc' = [pc EXCEPT ![t] = IF misses = {} THEN "ret" ELSE "regions"]
    /\ op' = [op EXCEPT ![t] = "GetSLBInstanceTags"]
    /\ opTok' = [opTok EXCEPT ![t] = 0]
    /\ opRem' = [opRem EXCEPT ![t] = 0]
    /\ result' = [result EXCEPT ![t] = [err |-> FALSE, data |-> 0]]
    /\ region' = [region EXCEPT ![t] = NoRegion]
    /\ listed' = [listed EXCEPT ![t] = NothingListed]
    /\ failedRegions' = [failedRegions EXCEPT ![t] = {}]
    /\ seen' = [seen EXCEPT ![t] = {}]
    /\ UNCHANGED <<ctxErr, waitRes, key, prev>>
    /\ UNCHANGED <<rlVars, cacheVars, clientVars>>
    /\ UNCHANGED collVars
    /\ UNCHANGED scrapeVars

\* a range loop without the break on an empty uncachedSet
GetSLBInstanceTagsRegion_noBreak(t, r) ==
    /\ pc[t] = "regions"
    /\ op[t] = "GetSLBInstanceTags"
    /\ r \in regionsLeft[t]
    /\ regionsLeft' = [regionsLeft EXCEPT ![t] = @ \ {r}]
    /\ region' = [region EXCEPT ![t] = r]
    /\ EnterWait(t)
    /\ UNCHANGED <<op, key, result, opTok, opRem>>
    /\ UNCHANGED <<instanceIDs, tagsMap, uncachedIDs, uncachedSet, listed,
                   failedRegions, seen, prev>>
    /\ UNCHANGED <<rlVars, cacheVars, clientVars>>
    /\ UNCHANGED collVars
    /\ UNCHANGED scrapeVars

\* the range loop takes the next entry of c.slbClients, in the order the map
\* iteration happens to give; IDs are still outstanding, so
\* c.rateLimiter.Wait(ctx) is entered
GetSLBInstanceTagsRegion(t, r) ==
    /\ pc[t] = "regions"
    /\ op[t] = "GetSLBInstanceTags"
    /\ r \in regionsLeft[t]
    /\ uncachedSet[t] # {}
    /\ regionsLeft' = [regionsLeft EXCEPT ![t] = @ \ {r}]
    /\ region' = [region EXCEPT ![t] = r]
    /\ EnterWait(t)
    /\ UNCHANGED <<op, key, result, opTok, opRem>>
    /\ UNCHANGED <<instanceIDs, tagsMap, uncachedIDs, uncachedSet, listed,
                   failedRegions, seen, prev>>
    /\ UNCHANGED <<rlVars, cacheVars, clientVars>>
    /\ UNCHANGED collVars
    /\ UNCHANGED scrapeVars

\* a return on a failed Wait that first caches the outstanding IDs as empty
GetSLBInstanceTagsWaitFailed_caching(t) ==
    /\ pc[t] = "waited"
    /\ op[t] = "GetSLBInstanceTags"
    /\ waitRes[t] \in {"canceled", "deadline"}
    /\ pc' = [pc EXCEPT ![t] = "ret"]
    /\ result' = [result EXCEPT ![t] = [err |-> TRUE, data |-> 0]]
    /\ tcache' = [id \in InstanceIDs |->
           IF id \in uncachedSet[t] THEN TagCacheSet(tcache, id, EmptyTags)[id]
           ELSE tcache[id]]
    /\ UNCHANGED <<op, ctxErr, waitRes, key, opTok, opRem>>
    /\ UNCHANGED <<now, mcache, lastSet, tagSetAt, getRes>>
    /\ UNCHANGED <<rlVars, clientVars, tagVars>>
    /\ UNCHANGED collVars
    /\ UNCHANGED scrapeVars

\* Wait returned an error: return tagsMap, "rate limiter error"
GetSLBInstanceTagsWaitFailed(t) ==
    /\ pc[t] = "waited"
    /\ op[t] = "GetSLBInstanceTags"
    /\ waitRes[t] \in {"canceled", "deadline"}
    /\ pc' = [pc EXCEPT ![t] = "ret"]
    /\ result' = [result EXCEPT ![t] = [err |-> TRUE, data |-> 0]]
    /\ UNCHANGED <<op, ctxErr, waitRes, key, opTok, opRem>>
    /\ UNCHANGED <<rlVars, cacheVars, clientVars, tagVars>>
    /\ UNCHANGED collVars
    /\ UNCHANGED scrapeVars

\* a failed listing that makes the call return the error
GetSLBInstanceTagsListFailed_abort(t) ==
    /\ pc[t] = "waited"
    /\ op[t] = "GetSLBInstanceTags"
    /\ waitRes[t] = "nil"
    /\ opRem' = [opRem EXCEPT ![t] = @ + 1]
    /\ listed' = [listed EXCEPT ![t][region[t]] = @ + 1]
    /\ failedRegions' = [failedRegions EXCEPT ![t] = @ \cup {region[t]}]
    /\ waitRes' = [waitRes EXCEPT ![t] = "none"]
    /\ result' = [result EXCEPT ![t] = [err |-> TRUE, data |-> 0]]
    /\ pc' = [pc EXCEPT ![t] = "ret"]
    /\ UNCHANGED <<op, ctxErr, key, opTok>>
    /\ UNCHANGED <<instanceIDs, tagsMap, uncachedIDs, uncachedSet, regionsLeft,
                   region, seen, prev>>
    /\ UNCHANGED <<rlVars, cacheVars, clientVars>>
    /\ UNCHANGED collVars
    /\ UNCHANGED scrapeVars

\* slbClient.DescribeLoadBalancers(request) of the region fails: the failure is
\* printed and the loop continues with the next region
GetSLBInstanceTagsListFailed(t) ==
    /\ pc[t] = "waited"
    /\ op[t] = "GetSLBInstanceTags"
    /\ waitRes[t] = "nil"
    /\ opRem' = [opRem EXCEPT ![t] = @ + 1]
    /\ listed' = [listed EXCEPT ![t][region[t]] = @ + 1]
    /\ failedRegions' = [failedRegions EXCEPT ![t] = @ \cup {region[t]}]
    /\ waitRes' = [waitRes EXCEPT ![t] = "none"]
    /\ pc' = [pc EXCEPT ![t] = "regions"]
    /\ UNCHANGED <<op, ctxErr, key, result, opTok>>
    /\ UNCHANGED <<instanceIDs, tagsMap, uncachedIDs, uncachedSet, regionsLeft,
                   region, seen, prev>>
    /\ UNCHANGED <<rlVars, cacheVars, clientVars>>
    /\ UNCHANGED collVars
    /\ UNCHANGED scrapeVars

\* slbClient.DescribeLoadBalancers(request) of the region returns resp: every
\* load balancer of resp that is in uncachedSet goes to tagsMap and to
\* c.tagCache with its tags and leaves uncachedSet
GetSLBInstanceTagsListOk(t, resp) ==
    /\ pc[t] = "waited"
    /\ op[t] = "GetSLBInstanceTags"
    /\ waitRes[t] = "nil"
    /\ LET found == {id \in uncachedSet[t] : resp[id] # "absent"}
       IN  /\ tagsMap' = [tagsMap EXCEPT ![t] =
                  [id \in InstanceIDs |->
                      IF id \in found THEN [present |-> TRUE, tags |-> resp[id]]
                      ELSE tagsMap[t][id]]]
           /\ tcache' = [id \in InstanceIDs |->
                  IF id \in found THEN TagCacheSet(tcache, id, resp[id])[id]
                  ELSE tcache[id]]
           /\ tagSetAt' = [id \in InstanceIDs |->
                  IF id \in found THEN [present |-> TRUE, at |-> now]
                  ELSE tagSetAt[id]]
           /\ uncachedSet' = [uncachedSet EXCEPT ![t] = @ \ found]
           /\ seen' = [seen EXCEPT ![t] = @ \cup found]
    /\ opRem' = [opRem EXCEPT ![t] = @ + 1]
    /\ listed' = [listed EXCEPT ![t][region[t]] = @ + 1]
    /\ waitRes' = [waitRes EXCEPT ![t] = "none"]
    /\ pc' = [pc EXCEPT ![t] = "regions"]
    /\ UNCHANGED <<op, ctxErr, key, result, opTok>>
    /\ UNCHANGED <<instanceIDs, uncachedIDs, regionsLeft, region, failedRegions, prev>>
    /\ UNCHANGED <<now, mcache, lastSet, getRes>>
    /\ UNCHANGED <<rlVars, clientVars>>
    /\ UNCHANGED collVars
    /\ UNCHANGED scrapeVars

\* a return that puts the empty tags in the result only, not in the cache
GetSLBInstanceTagsFinish_nocache(t) ==
    /\ pc[t] = "regions"
    /\ op[t] = "GetSLBInstanceTags"
    /\ uncachedSet[t] = {} \/ regionsLeft[t] = {}
    /\ tagsMap' = [tagsMap EXCEPT ![t] =
           [id \in InstanceIDs |->
               IF id \in uncachedSet[t] THEN [present |-> TRUE, tags |-> EmptyTags]
               ELSE tagsMap[t][id]]]
    /\ result' = [result EXCEPT ![t] = [err |-> FALSE, data |-> 0]]
    /\ pc' = [pc EXCEPT ![t] = "ret"]
    /\ UNCHANGED <<op, ctxErr, waitRes, key, opTok, opRem>>
    /\ UNCHANGED <<instanceIDs, uncachedIDs, uncachedSet, regionsLeft, region,
                   listed, failedRegions, seen, prev>>
    /\ UNCHANGED <<rlVars, cacheVars, clientVars>>
    /\ UNCHANGED collVars
    /\ UNCHANGED scrapeVars

\* the range loop is over, by the break on an empty uncachedSet or with no
\* region left: every ID still in uncachedSet goes to tagsMap and to
\* c.tagCache with empty tags; return tagsMap, nil
GetSLBInstanceTagsFinish(t) ==
    /\ pc[t] = "regions"
    /\ op[t] = "GetSLBInstanceTags"
    /\ uncachedSet[t] = {} \/ regionsLeft[t] = {}
    /\ tagsMap' = [tagsMap EXCEPT ![t] =
           [id \in InstanceIDs |->
               IF id \in uncachedSet[t] THEN [present |-> TRUE, tags |-> EmptyTags]
               ELSE tagsMap[t][id]]]
    /\ tcache' = [id \in InstanceIDs |->
           IF id \in uncachedSet[t] THEN TagCacheSet(tcache, id, EmptyTags)[id]
           ELSE tcache[id]]
    /\ tagSetAt' = [id \in InstanceIDs |->
           IF id \in uncachedSet[t] THEN [present |-> TRUE, at |-> now]
           ELSE tagSetAt[id]]
    /\ result' = [result EXCEPT ![t] = [err |-> FALSE, data |-> 0]]
    /\ pc' = [pc EXCEPT ![t] = "ret"]
    /\ UNCHANGED <<op, ctxErr, waitRes, key, opTok, opRem>>
    /\ UNCHANGED <<instanceIDs, uncachedIDs, uncachedSet, regionsLeft, region,
                   listed, failedRegions, seen, prev>>
    /\ UNCHANGED <<now, mcache, lastSet, getRes>>
    /\ UNCHANGED <<rlVars, clientVars>>
    /\ UNCHANGED collVars
    /\ UNCHANGED scrapeVars

\* ------------------------------------------------------------ collectors

\* a value that adds the fallbacks up
SampleValue_sum(data) ==
    IF data.Average # 0 THEN data.Average ELSE data.Maximum + data.Sum

\* value := data.Average; if value == 0 { value = data.Maximum };
\* if value == 0 { value = data.Sum }
SampleValue(data) ==
    LET value1 == data.Average
        value2 == IF value1 = 0 THEN data.Maximum ELSE value1
    IN  IF value2 = 0 THEN data.Sum ELSE value2

\* BaseCollector.buildLabelValues for redis and rds: the instance ID alone
buildLabelValues(data) == <<data.InstanceID>>

\* the value of every tag of the model's tag sets
TagValue == "v"

\* val, ok := tags[k]
TagLookup(tags, k) ==
    IF tags # EmptyTags /\ tags = k
    THEN [ok |-> TRUE, val |-> TagValue]
    ELSE [ok |-> FALSE, val |-> ""]

\* SLBCollector.buildDynamicSLBLabelValues: the instance ID, protocol, port
\* and VIP of the data point and the values of tags["team"], tags["Group"] and
\* tags["Name"], "" for a key the map lacks
buildDynamicSLBLabelValues(data, tags) ==
    LET team == IF TagLookup(tags, "team").ok THEN TagLookup(tags, "team").val ELSE ""
        group == IF TagLookup(tags, "Group").ok THEN TagLookup(tags, "Group").val ELSE ""
        name == IF TagLookup(tags, "Name").ok THEN TagLookup(tags, "Name").val ELSE ""
    IN  <<data.InstanceID, data.Protocol, data.Port, data.Vip, team, group, name>>

\* tagsMap[data.InstanceID]: the tags of the entry, nil (no tags) without one
TagsOfInstance(tm, id) ==
    IF id \in InstanceIDs /\ tm[id].present THEN tm[id].tags ELSE EmptyTags

\* prometheus.NewDesc(BuildFQName(prefix, serviceName, metricName), help,
\* labels, globalLabels): the name parts and the label names
NewDesc(serviceName, metricName, labels) ==
    [service |-> serviceName, name |-> metricName, labels |-> labels]

\* initMetricDescriptors, the descriptor of one metric name: the label
\* instance_id, and protocol, port and vip for slb
MetricDesc(serviceName, metricName) ==
    NewDesc(serviceName, metricName,
            IF serviceName = "slb"
            THEN <<"instance_id", "protocol", "port", "vip">>
            ELSE <<"instance_id">>)

\* bc.metricDescs, as NewBaseCollector leaves it
metricDescs == [m \in {config.Metrics[i] : i \in 1..Len(config.Metrics)} |->
                   MetricDesc(service, m)]

\* dynamicDesc of CollectSLBMetric: the slb labels and the tag keys
DynamicDesc(metricName) ==
    NewDesc(service, metricName,
            <<"instance_id", "protocol", "port", "vip", "Team", "Group", "Name">>)

\* the descriptors bc.scrapeErrors.Desc() and bc.scrapeDuration.Desc()
InternalDescs ==
    {NewDesc(service, <<"scrape_errors_total">>, <<>>),
     NewDesc(service, <<"scrape_duration_seconds">>, <<>>)}

\* BaseCollector.Describe: what it sends on ch
Describe == {metricDescs[m] : m \in DOMAIN metricDescs} \cup InternalDescs

\* prometheus.NewConstMetric(desc, GaugeValue, value, labelValues...) for data
\* point j of the metric at list position i
ServiceSample(i, j, desc, data, labelValues) ==
    [kind |-> "service", i |-> i, j |-> j, name |-> desc.name, desc |-> desc,
     data |-> data, value |-> SampleValue(data), labels |-> labelValues]

\* the loop over metricData of CollectMetric
CollectMetricSamples(i, m, points) ==
    {ServiceSample(i, j, metricDescs[m], points[j], buildLabelValues(points[j]))
        : j \in 1..Len(points)}

\* the loop over metricData of CollectSLBMetric
CollectSLBMetricSamples(i, m, points, tm) ==
    {ServiceSample(i, j, DynamicDesc(m), points[j],
                   buildDynamicSLBLabelValues(points[j],
                                              TagsOfInstance(tm, points[j].InstanceID)))
        : j \in 1..Len(points)}

\* the instanceSet of CollectSLBMetric: the non-empty instance IDs of the points
InstanceSet(points) == {points[j].InstanceID : j \in 1..Len(points)} \ {""}

\* what c.client.GetMetricData(ctx, c.config.Namespace, m) returns when a cache
\* miss goes as o says: the cached response on a hit
GetMetricDataResult(m, o) ==
    LET got == MetricCacheGet(mcache, CacheKey(Namespace, m), now)
    IN  IF got.found THEN [err |-> FALSE, data |-> got.data]
        ELSE IF o.kind = "ok" THEN [err |-> FALSE, data |-> o.data]
        ELSE [err |-> TRUE, data |-> EmptyDatapoints]

\* what that GetMetricData call does to the client, taken as one step of the
\* collector's goroutine: a hit changes nothing; on a miss a failed Wait
\* changes nothing, else a token is taken (the step waits for one) and a
\* response is stored in the cache
GetMetricDataStep(m, o) ==
    LET cacheKey == CacheKey(Namespace, m)
        got == MetricCacheGet(mcache, cacheKey, now)
    IN  IF got.found
        THEN /\ o = [kind |-> "ok", data |-> got.data]
             /\ UNCHANGED <<tokens, succ, mcache, lastSet>>
        ELSE IF o.kind = "waitfail"
        THEN UNCHANGED <<tokens, succ, mcache, lastSet>>
        ELSE /\ tokens > 0
             /\ tokens' = TakeToken(tokens)
             /\ succ' = succ + 1
             /\ IF o.kind = "ok"
                THEN /\ mcache' = MetricCacheSet(mcache, cacheKey, o.data, now)
                     /\ lastSet' = [lastSet EXCEPT ![cacheKey] =
                                       [present |-> TRUE, data |-> o.data, at |-> now]]
                ELSE UNCHANGED <<mcache, lastSet>>

\* a decoding that takes empty Datapoints for an error
DecodeResponse_emptyFails(res) ==
    IF res.err THEN [err |-> TRUE, points |-> <<>>]
    ELSE IF res.data = EmptyDatapoints THEN [err |-> TRUE, points |-> <<>>]
    ELSE [err |-> Unmarshal(res.data).err, points |-> Unmarshal(res.data).metricData]

\* CollectMetric / CollectSLBMetric up to the decoded data points: an error
\* of GetMetricData or of json.Unmarshal is returned, empty Datapoints give
\* no data points and no error
DecodeResponse(res) ==
    IF res.err THEN [err |-> TRUE, points |-> <<>>]
    ELSE IF res.data = EmptyDatapoints THEN [err |-> FALSE, points |-> <<>>]
    ELSE [err |-> Unmarshal(res.data).err, points |-> Unmarshal(res.data).metricData]

\* a Collect that sends the internal metrics before it looks at Enabled
CollectCall_sendFirst ==
    /\ cpc = "idle"
    /\ emitted' = InternalSamples
    /\ IF ~config.Enabled
       THEN /\ cpc' = "ret"
            /\ collRes' = NoError
            /\ UNCHANGED <<idx, errorCount, fetched, gpc>>
       ELSE /\ errorCount' = 0
            /\ idx' = 1
            /\ fetched' = [i \in 1..Len(config.Metrics) |-> NotFetched]
            /\ collRes' = NoError
            /\ IF service = "rds"
               THEN /\ cpc' = "wait"
                    /\ gpc' = [i \in 1..Len(config.Metrics) |-> "start"]
               ELSE /\ cpc' = "loop"
                    /\ UNCHANGED gpc
    /\ UNCHANGED <<service, config, metricData, semaphore, errorCh, scrapeErrors,
                   scrapeDuration, lastScrape>>
    /\ UNCHANGED <<rlVars, taskVars, cacheVars, clientVars, tagVars>>
    /\ UNCHANGED scrapeVars

\* Collect is called: a disabled collector returns nil; an enabled one sends
\* its two internal metrics and starts on its metric list, RDS by starting one
\* goroutine per metric
CollectCall ==
    /\ cpc = "idle"
    /\ IF ~config.Enabled
       THEN /\ cpc' = "ret"
            /\ collRes' = NoError
            /\ UNCHANGED <<idx, errorCount, emitted, fetched, gpc>>
       ELSE /\ emitted' = InternalSamples
            /\ errorCount' = 0
            /\ idx' = 1
            /\ fetched' = [i \in 1..Len(config.Metrics) |-> NotFetched]
            /\ collRes' = NoError
            /\ IF service = "rds"
               THEN /\ cpc' = "wait"
                    /\ gpc' = [i \in 1..Len(config.Metrics) |-> "start"]
               ELSE /\ cpc' = "loop"
                    /\ UNCHANGED gpc
    /\ UNCHANGED <<service, config, metricData, semaphore, errorCh, scrapeErrors,
                   scrapeDuration, lastScrape>>
    /\ UNCHANGED <<rlVars, taskVars, cacheVars, clientVars, tagVars>>
    /\ UNCHANGED scrapeVars

\* a Redis loop that stops at the first metric that fails
RedisCollectMetric_stop(o) ==
    /\ cpc = "loop"
    /\ service = "redis"
    /\ idx <= Len(config.Metrics)
    /\ LET m == config.Metrics[idx]
           res == GetMetricDataResult(m, o)
           out == DecodeResponse(res)
       IN  /\ GetMetricDataStep(m, o)
           /\ fetched' = [fetched EXCEPT ![idx] = [kind |-> "got", err |-> res.err, data |-> res.data]]
           /\ emitted' = emitted \cup CollectMetricSamples(idx, m, out.points)
           /\ errorCount' = IF out.err THEN errorCount + 1 ELSE errorCount
           /\ idx' = IF out.err THEN Len(config.Metrics) + 1 ELSE idx + 1
    /\ UNCHANGED <<service, config, cpc, collRes, metricData, gpc, semaphore, errorCh,
                   scrapeErrors,
                   scrapeDuration, lastScrape>>
    /\ UNCHANGED <<burst, tickerC, tickerStopped, rlCtxDone, refillPc, closePc, closed,
                   added, ticks>>
    /\ UNCHANGED <<now, tcache, tagSetAt, getRes>>
    /\ UNCHANGED <<taskVars, clientVars, tagVars>>
    /\ UNCHANGED scrapeVars

\* RedisCollector.Collect, one turn of the loop: c.CollectMetric of the next
\* metric name; its samples go to ch, an error is counted and the loop goes on
RedisCollectMetric(o) ==
    /\ cpc = "loop"
    /\ service = "redis"
    /\ idx <= Len(config.Metrics)
    /\ LET m == config.Metrics[idx]
           res == GetMetricDataResult(m, o)
           out == DecodeResponse(res)
       IN  /\ GetMetricDataStep(m, o)
           /\ fetched' = [fetched EXCEPT ![idx] = [kind |-> "got", err |-> res.err, data |-> res.data]]
           /\ emitted' = emitted \cup CollectMetricSamples(idx, m, out.points)
           /\ errorCount' = IF out.err THEN errorCount + 1 ELSE errorCount
           /\ idx' = idx + 1
    /\ UNCHANGED <<service, config, cpc, collRes, metricData, gpc, semaphore, errorCh,
                   scrapeErrors,
                   scrapeDuration, lastScrape>>
    /\ UNCHANGED <<burst, tickerC, tickerStopped, rlCtxDone, refillPc, closePc, closed,
                   added, ticks>>
    /\ UNCHANGED <<now, tcache, tagSetAt, getRes>>
    /\ UNCHANGED <<taskVars, clientVars, tagVars>>
    /\ UNCHANGED scrapeVars

\* SLBCollector.Collect, one turn of the loop, CollectSLBMetric up to the tag
\* lookup: an error is counted; data points without an instance ID are sent
\* with empty tags; else GetSLBInstanceTags is to be called
SLBCollectFetch(t, o) ==
    /\ cpc = "loop"
    /\ service = "slb"
    /\ idx <= Len(config.Metrics)
    /\ pc[t] = "idle"
    /\ LET m == config.Metrics[idx]
           res == GetMetricDataResult(m, o)
           out == DecodeResponse(res)
       IN  /\ GetMetricDataStep(m, o)
           /\ fetched' = [fetched EXCEPT ![idx] = [kind |-> "got", err |-> res.err, data |-> res.data]]
           /\ errorCount' = IF out.err THEN errorCount + 1 ELSE errorCount
           /\ IF InstanceSet(out.points) = {}
              THEN /\ emitted' = emitted
                        \cup CollectSLBMetricSamples(idx, m, out.points, EmptyTagsMap)
                   /\ idx' = idx + 1
                   /\ UNCHANGED <<cpc, metricData>>
              ELSE /\ metricData' = out.points
                   /\ cpc' = "tags"
                   /\ UNCHANGED <<emitted, idx>>
    /\ UNCHANGED <<service, config, collRes, gpc, semaphore, errorCh, scrapeErrors,
                   scrapeDuration, lastScrape>>
    /\ UNCHANGED <<burst, tickerC, tickerStopped, rlCtxDone, refillPc, closePc, closed,
                   added, ticks>>
    /\ UNCHANGED <<now, tcache, tagSetAt, getRes>>
    /\ UNCHANGED <<taskVars, clientVars, tagVars>>
    /\ UNCHANGED scrapeVars

\* CollectSLBMetric calls c.client.GetSLBInstanceTags(ctx, instanceIDs)
SLBCollectTags(t) ==
    /\ cpc = "tags"
    /\ GetSLBInstanceTagsCall(t, InstanceSet(metricData))

\* CollectSLBMetric after GetSLBInstanceTags has returned: on an error tagsMap
\* is replaced by an empty map; every data point is sent with the labels built
\* from tagsMap[data.InstanceID]
SLBCollectEmit(t) ==
    /\ cpc = "tags"
    /\ pc[t] = "ret"
    /\ op[t] = "GetSLBInstanceTags"
    /\ LET tm == IF result[t].err THEN EmptyTagsMap ELSE tagsMap[t]
       IN  emitted' = emitted
               \cup CollectSLBMetricSamples(idx, config.Metrics[idx], metricData, tm)
    /\ idx' = idx + 1
    /\ metricData' = <<>>
    /\ cpc' = "loop"
    /\ UNCHANGED <<service, config, errorCount, collRes, fetched, gpc, semaphore, errorCh,
                   scrapeErrors,
                   scrapeDuration, lastScrape>>
    /\ UNCHANGED <<rlVars, taskVars, cacheVars, clientVars, tagVars>>
    /\ UNCHANGED scrapeVars

\* the goroutine of CollectSLBMetric is through with the tag lookup
SLBTagsReturn(t) ==
    /\ cpc # "tags"
    /\ Return(t)

\* Collect of Redis and SLB after the loop: errors make it record a scrape
\* error and return "failed to collect %d ... metrics"; the deferred function
\* records the duration and sets the last scrape time
CollectReturn ==
    /\ cpc = "loop"
    /\ idx > Len(config.Metrics)
    /\ IF errorCount > 0
       THEN /\ scrapeErrors' = scrapeErrors + 1
            /\ collRes' = [err |-> TRUE, count |-> errorCount]
       ELSE /\ collRes' = NoError
            /\ UNCHANGED scrapeErrors
    /\ scrapeDuration' = scrapeDuration + 1
    /\ lastScrape' = now
    /\ cpc' = "ret"
    /\ UNCHANGED <<service, config, idx, errorCount, emitted, fetched, metricData, gpc,
                   semaphore, errorCh>>
    /\ UNCHANGED <<rlVars, taskVars, cacheVars, clientVars, tagVars>>
    /\ UNCHANGED scrapeVars

\* a goroutine that goes on without the semaphore
GoAcquire_unbounded(g) ==
    /\ cpc = "wait"
    /\ g \in DOMAIN gpc
    /\ gpc[g] = "start"
    /\ semaphore' = semaphore + 1
    /\ gpc' = [gpc EXCEPT ![g] = "run"]
    /\ UNCHANGED <<service, config, cpc, idx, errorCount, emitted, collRes, fetched,
                   metricData, errorCh, scrapeErrors,
                   scrapeDuration, lastScrape>>
    /\ UNCHANGED <<rlVars, taskVars, cacheVars, clientVars, tagVars>>
    /\ UNCHANGED scrapeVars

\* collectMetricsConcurrently, the goroutine of position g: semaphore <- struct{}{}
GoAcquire(g) ==
    /\ cpc = "wait"
    /\ g \in DOMAIN gpc
    /\ gpc[g] = "start"
    /\ semaphore < maxConcurrent
    /\ semaphore' = semaphore + 1
    /\ gpc' = [gpc EXCEPT ![g] = "run"]
    /\ UNCHANGED <<service, config, cpc, idx, errorCount, emitted, collRes, fetched,
                   metricData, errorCh, scrapeErrors,
                   scrapeDuration, lastScrape>>
    /\ UNCHANGED <<rlVars, taskVars, cacheVars, clientVars, tagVars>>
    /\ UNCHANGED scrapeVars

\* a goroutine that ends without giving its semaphore slot back
GoCollectMetric_keepSlot(g, o) ==
    /\ cpc = "wait"
    /\ g \in DOMAIN gpc
    /\ gpc[g] = "run"
    /\ LET m == config.Metrics[g]
           res == GetMetricDataResult(m, o)
           out == DecodeResponse(res)
       IN  /\ GetMetricDataStep(m, o)
           /\ fetched' = [fetched EXCEPT ![g] = [kind |-> "got", err |-> res.err, data |-> res.data]]
           /\ emitted' = emitted \cup CollectMetricSamples(g, m, out.points)
           /\ out.err => errorCh < Len(config.Metrics)
           /\ errorCh' = IF out.err THEN errorCh + 1 ELSE errorCh
    /\ semaphore' = semaphore
    /\ gpc' = [gpc EXCEPT ![g] = "done"]
    /\ UNCHANGED <<service, config, cpc, idx, errorCount, collRes, metricData,
                   scrapeErrors,
                   scrapeDuration, lastScrape>>
    /\ UNCHANGED <<burst, tickerC, tickerStopped, rlCtxDone, refillPc, closePc, closed,
                   added, ticks>>
    /\ UNCHANGED <<now, tcache, tagSetAt, getRes>>
    /\ UNCHANGED <<taskVars, clientVars, tagVars>>
    /\ UNCHANGED scrapeVars

\* the goroutine of position g: c.CollectMetric of its metric; an error goes to
\* errorCh, a send that waits while the channel is full; the semaphore is
\* released and wg.Done() runs
GoCollectMetric(g, o) ==
    /\ cpc = "wait"
    /\ g \in DOMAIN gpc
    /\ gpc[g] = "run"
    /\ LET m == config.Metrics[g]
           res == GetMetricDataResult(m, o)
           out == DecodeResponse(res)
       IN  /\ GetMetricDataStep(m, o)
           /\ fetched' = [fetched EXCEPT ![g] = [kind |-> "got", err |-> res.err, data |-> res.data]]
           /\ emitted' = emitted \cup CollectMetricSamples(g, m, out.points)
           /\ out.err => errorCh < Len(config.Metrics)
           /\ errorCh' = IF out.err THEN errorCh + 1 ELSE errorCh
    /\ semaphore' = semaphore - 1
    /\ gpc' = [gpc EXCEPT ![g] = "done"]
    /\ UNCHANGED <<service, config, cpc, idx, errorCount, collRes, metricData,
                   scrapeErrors,
                   scrapeDuration, lastScrape>>
    /\ UNCHANGED <<burst, tickerC, tickerStopped, rlCtxDone, refillPc, closePc, closed,
                   added, ticks>>
    /\ UNCHANGED <<now, tcache, tagSetAt, getRes>>
    /\ UNCHANGED <<taskVars, clientVars, tagVars>>
    /\ UNCHANGED scrapeVars

\* RDSCollector.Collect after wg.Wait(): errorCh is closed and counted; errors
\* make Collect record a scrape error and return "failed to collect %d RDS
\* metrics"; the deferred function records the duration and sets the last
\* scrape time
RDSCollectReturn ==
    /\ cpc = "wait"
    /\ \A g \in DOMAIN gpc : gpc[g] = "done"
    /\ errorCount' = errorCh
    /\ IF errorCh > 0
       THEN /\ scrapeErrors' = scrapeErrors + 1
            /\ collRes' = [err |-> TRUE, count |-> errorCh]
       ELSE /\ collRes' = NoError
            /\ UNCHANGED scrapeErrors
    /\ scrapeDuration' = scrapeDuration + 1
    /\ lastScrape' = now
    /\ cpc' = "ret"
    /\ UNCHANGED <<service, config, idx, emitted, fetched, metricData, gpc,
                   semaphore, errorCh>>
    /\ UNCHANGED <<rlVars, taskVars, cacheVars, clientVars, tagVars>>
    /\ UNCHANGED scrapeVars

\* ================================================================ Exporter

\* e.collectors as initCollectors leaves it: one collector per enabled service
eCollectors == {s \in Services : services[s].Enabled}

\* the responses of the scrape runs have no data points: no service sample is
\* made and CollectSLBMetric has no instance to look tags up for
ScrapePayloads == {EmptyDatapoints}

\* how a GetMetricData call of a collector of the scrape goes on a cache miss;
\* "hang": the Wait returns nil and the remote call never returns
ScrapeOutcomes == FetchOutcomes(ScrapePayloads) \cup {[kind |-> "hang"]}

\* ch <- e.up ... ch <- e.lastScrapeError: the six internal metrics with the
\* values they have when they are sent
ExporterSamples(u, total, errors, durations, time, lastError) ==
    <<[name |-> "up", value |-> u],
      [name |-> "scrapes_total", value |-> total],
      [name |-> "scrape_errors_total", value |-> errors],
      [name |-> "scrape_duration_seconds", value |-> durations],
      [name |-> "last_scrape_timestamp_seconds", value |-> time],
      [name |-> "last_scrape_error", value |-> lastError]>>

\* a call that sets the counter of scrapes to 1
ExporterCollectCall_set ==
    /\ spc = "idle"
    /\ totalScrapes' = 1
    /\ sctx' = "live"
    /\ spc' = "health"
    /\ UNCHANGED <<services, scrape2, up, eScrapeErrors, eScrapeDuration, lastScrapeTime,
                   lastScrapeError, eErrorCount, eErrorCh, sent, col>>
    /\ UNCHANGED <<rlVars, taskVars, cacheVars, clientVars, tagVars, collVars>>

\* Exporter.Collect is called: e.totalScrapes.Inc() and the context with the
\* 120 second timeout
ExporterCollectCall ==
    /\ spc = "idle"
    /\ totalScrapes' = totalScrapes + 1
    /\ sctx' = "live"
    /\ spc' = "health"
    /\ UNCHANGED <<services, scrape2, up, eScrapeErrors, eScrapeDuration, lastScrapeTime,
                   lastScrapeError, eErrorCount, eErrorCh, sent, col>>
    /\ UNCHANGED <<rlVars, taskVars, cacheVars, clientVars, tagVars, collVars>>

\* the 120 seconds of the scrape's context are over
ScrapeDeadline ==
    /\ spc \in {"health", "wait"}
    /\ sctx = "live"
    /\ sctx' = "deadline"
    /\ UNCHANGED <<services, scrape2, spc, up, totalScrapes, eScrapeErrors, eScrapeDuration,
                   lastScrapeTime, lastScrapeError, eErrorCount, eErrorCh, sent, col>>
    /\ UNCHANGED <<rlVars, taskVars, cacheVars, clientVars, tagVars, collVars>>

\* e.client.Health(ctx) returns, failed or not: up, and on a failure the error
\* counter and the error flag, are set; then one goroutine is started for
\* every collector and wg.Wait() is reached
ExporterHealth(failed) ==
    /\ spc = "health"
    /\ up' = IF failed THEN 0 ELSE 1
    /\ eScrapeErrors' = IF failed THEN eScrapeErrors + 1 ELSE eScrapeErrors
    /\ lastScrapeError' = IF failed THEN 1 ELSE 0
    /\ eErrorCount' = 0
    /\ eErrorCh' = 0
    /\ col' = [s \in Services |->
                 IF s \in eCollectors THEN [col[s] EXCEPT !.pc = "start"] ELSE col[s]]
    /\ spc' = "wait"
    /\ UNCHANGED <<services, scrape2, sctx, totalScrapes, eScrapeDuration, lastScrapeTime, sent>>
    /\ UNCHANGED <<rlVars, taskVars, cacheVars, clientVars, tagVars, collVars>>

\* the goroutine of collector c calls c.Collect(ctx, ch): the collector is
\* enabled, so its two internal metrics are sent and its metric list is begun
CollectorCall(c) ==
    /\ col[c].pc = "start"
    /\ col' = [col EXCEPT ![c] = [@ EXCEPT !.pc = "loop", !.calls = @ + 1, !.idx = 1,
                                           !.errorCount = 0]]
    /\ emitted' = emitted \cup InternalSamples
    /\ UNCHANGED <<service, config, cpc, idx, errorCount, collRes, fetched, metricData,
                   gpc, semaphore, errorCh, scrapeErrors, scrapeDuration, lastScrape>>
    /\ UNCHANGED <<services, scrape2, spc, sctx, up, totalScrapes, eScrapeErrors, eScrapeDuration,
                   lastScrapeTime, lastScrapeError, eErrorCount, eErrorCh, sent>>
    /\ UNCHANGED <<rlVars, taskVars, cacheVars, clientVars, tagVars>>

\* Collect of collector c fetches its next metric (for RDS the goroutines of
\* collectMetricsConcurrently, taken in list order): an error of GetMetricData
\* is counted; on "hang" the remote call is issued under c.mu.RLock() and does
\* not return
CollectorMetric(c, o) ==
    /\ col[c].pc = "loop"
    /\ col[c].idx <= Len(services[c].Metrics)
    /\ LET m == services[c].Metrics[col[c].idx]
       IN  IF o.kind = "hang"
           THEN /\ ~MetricCacheGet(mcache, CacheKey(Namespace, m), now).found
                /\ tokens > 0
                /\ tokens' = TakeToken(tokens)
                /\ succ' = succ + 1
                /\ muReaders' = muReaders + 1
                /\ col' = [col EXCEPT ![c] = [@ EXCEPT !.pc = "hung"]]
                /\ UNCHANGED <<mcache, lastSet>>
           ELSE /\ GetMetricDataStep(m, o)
                /\ col' = [col EXCEPT ![c] =
                              [@ EXCEPT !.idx = @ + 1,
                                        !.errorCount =
                                            IF DecodeResponse(GetMetricDataResult(m, o)).err
                                            THEN @ + 1 ELSE @]]
                /\ UNCHANGED muReaders
    /\ UNCHANGED <<burst, tickerC, tickerStopped, rlCtxDone, refillPc, closePc, closed,
                   added, ticks>>
    /\ UNCHANGED <<now, tcache, tagSetAt, getRes>>
    /\ UNCHANGED muWriter
    /\ UNCHANGED <<services, scrape2, spc, sctx, up, totalScrapes, eScrapeErrors, eScrapeDuration,
                   lastScrapeTime, lastScrapeError, eErrorCount, eErrorCh, sent>>
    /\ UNCHANGED <<taskVars, tagVars, collVars>>

\* a goroutine that drops the error of its collector
CollectorReturn_silent(c) ==
    /\ col[c].pc = "loop"
    /\ col[c].idx > Len(services[c].Metrics)
    /\ LET failed == col[c].errorCount > 0
       IN  /\ col' = [col EXCEPT ![c] =
                         [@ EXCEPT !.pc = "done",
                                   !.res = IF failed THEN "err" ELSE "nil",
                                   !.scrapeErrors = IF failed THEN @ + 1 ELSE @,
                                   !.scrapeDuration = @ + 1,
                                   !.lastScrape = now]]
           /\ eErrorCh' = eErrorCh
    /\ UNCHANGED <<services, scrape2, spc, sctx, up, totalScrapes, eScrapeErrors, eScrapeDuration,
                   lastScrapeTime, lastScrapeError, eErrorCount, sent>>
    /\ UNCHANGED <<rlVars, taskVars, cacheVars, clientVars, tagVars, collVars>>

\* Collect of collector c is through its list: with errors it records a scrape
\* error and returns an error, which the goroutine sends to errorCh; the
\* deferred calls record the duration and the time, and wg.Done() runs
CollectorReturn(c) ==
    /\ col[c].pc = "loop"
    /\ col[c].idx > Len(services[c].Metrics)
    /\ LET failed == col[c].errorCount > 0
       IN  /\ col' = [col EXCEPT ![c] =
                         [@ EXCEPT !.pc = "done",
                                   !.res = IF failed THEN "err" ELSE "nil",
                                   !.scrapeErrors = IF failed THEN @ + 1 ELSE @,
                                   !.scrapeDuration = @ + 1,
                                   !.lastScrape = now]]
           /\ eErrorCh' = IF failed THEN eErrorCh + 1 ELSE eErrorCh
    /\ UNCHANGED <<services, scrape2, spc, sctx, up, totalScrapes, eScrapeErrors, eScrapeDuration,
                   lastScrapeTime, lastScrapeError, eErrorCount, sent>>
    /\ UNCHANGED <<rlVars, taskVars, cacheVars, clientVars, tagVars, collVars>>

\* a scrape that returns without its internal metrics when a collector failed
ExporterFinish_quietOnErrors ==
    /\ spc = "wait"
    /\ \A c \in Services : col[c].pc \in {"none", "done"}
    /\ eErrorCount' = eErrorCh
    /\ eErrorCh' = 0
    /\ eScrapeErrors' = IF eErrorCh > 0 THEN eScrapeErrors + eErrorCh ELSE eScrapeErrors
    /\ lastScrapeError' = IF eErrorCh > 0 THEN 1 ELSE 0
    /\ eScrapeDuration' = eScrapeDuration + 1
    /\ lastScrapeTime' = now
    /\ sent' = IF eErrorCh > 0 THEN sent
               ELSE sent \o ExporterSamples(up, totalScrapes, eScrapeErrors',
                                            eScrapeDuration', lastScrapeTime',
                                            lastScrapeError')
    /\ sctx' = IF sctx = "live" THEN "canceled" ELSE sctx
    /\ spc' = "ret"
    /\ UNCHANGED <<services, scrape2, up, totalScrapes, col>>
    /\ UNCHANGED <<rlVars, taskVars, cacheVars, clientVars, tagVars, collVars>>

\* wg.Wait() returns once every goroutine is done: errorCh is closed and
\* counted, the count goes to e.scrapeErrors and decides e.lastScrapeError, the
\* duration and the time are recorded, the six internal metrics are sent and
\* the deferred cancel runs
ExporterFinish ==
    /\ spc = "wait"
    /\ \A c \in Services : col[c].pc \in {"none", "done"}
    /\ eErrorCount' = eErrorCh
    /\ eErrorCh' = 0
    /\ eScrapeErrors' = IF eErrorCh > 0 THEN eScrapeErrors + eErrorCh ELSE eScrapeErrors
    /\ lastScrapeError' = IF eErrorCh > 0 THEN 1 ELSE 0
    /\ eScrapeDuration' = eScrapeDuration + 1
    /\ lastScrapeTime' = now
    /\ sent' = sent \o ExporterSamples(up, totalScrapes, eScrapeErrors', eScrapeDuration',
                                       lastScrapeTime', lastScrapeError')
    /\ sctx' = IF sctx = "live" THEN "canceled" ELSE sctx
    /\ spc' = "ret"
    /\ UNCHANGED <<services, scrape2, up, totalScrapes, col>>
    /\ UNCHANGED <<rlVars, taskVars, cacheVars, clientVars, tagVars, collVars>>

\* ---- a second, concurrent call of Exporter.Collect.  It works on the same
\* Exporter fields; its context, errorCh and channel are its own.  Its collector
\* goroutines are taken by their outcome alone: the number of them that send
\* an error.

\* the second call is made: e.totalScrapes.Inc()
Scrape2Call ==
    /\ scrape2.pc = "idle"
    /\ totalScrapes' = totalScrapes + 1
    /\ scrape2' = [scrape2 EXCEPT !.pc = "health"]
    /\ UNCHANGED <<services, spc, sctx, up, eScrapeErrors, eScrapeDuration, lastScrapeTime,
                   lastScrapeError, eErrorCount, eErrorCh, sent, col>>
    /\ UNCHANGED <<rlVars, taskVars, cacheVars, clientVars, tagVars, collVars>>

\* the health probe of the second call returns, failed or not; its goroutines
\* are started and wg.Wait() is reached
Scrape2Health(failed) ==
    /\ scrape2.pc = "health"
    /\ up' = IF failed THEN 0 ELSE 1
    /\ eScrapeErrors' = IF failed THEN eScrapeErrors + 1 ELSE eScrapeErrors
    /\ lastScrapeError' = IF failed THEN 1 ELSE 0
    /\ scrape2' = [scrape2 EXCEPT !.pc = "wait"]
    /\ UNCHANGED <<services, spc, sctx, totalScrapes, eScrapeDuration, lastScrapeTime,
                   eErrorCount, eErrorCh, sent, col>>
    /\ UNCHANGED <<rlVars, taskVars, cacheVars, clientVars, tagVars, collVars>>

\* wg.Wait() of the second call returns with n errors in its errorCh: they are
\* counted, added to e.scrapeErrors and decide e.lastScrapeError; the duration
\* and the time are recorded and the call returns
Scrape2Finish(n) ==
    /\ scrape2.pc = "wait"
    /\ n \in 0..Cardinality(eCollectors)
    /\ eScrapeErrors' = IF n > 0 THEN eScrapeErrors + n ELSE eScrapeErrors
    /\ lastScrapeError' = IF n > 0 THEN 1 ELSE 0
    /\ eScrapeDuration' = eScrapeDuration + 1
    /\ lastScrapeTime' = now
    /\ scrape2' = [pc |-> "ret", errorCount |-> n]
    /\ UNCHANGED <<services, spc, sctx, up, totalScrapes, eErrorCount, eErrorCh, sent, col>>
    /\ UNCHANGED <<rlVars, taskVars, cacheVars, clientVars, tagVars, collVars>>

TasksIdle ==
    /\ pc = [t \in Tasks |-> "idle"]
    /\ op = [t \in Tasks |-> "none"]
    /\ ctxErr = [t \in Tasks |-> "none"]
    /\ waitRes = [t \in Tasks |-> "none"]
    /\ key = [t \in Tasks |-> NoKey]
    /\ result = [t \in Tasks |-> [err |-> FALSE, data |-> 0]]
    /\ opTok = [t \in Tasks |-> 0]
    /\ opRem = [t \in Tasks |-> 0]

CachesEmpty ==
    /\ now = 0
    /\ mcache = [k \in Keys |-> NoEntry]
    /\ tcache = [i \in InstanceIDs |-> NoEntry]
    /\ lastSet = [k \in Keys |-> NoEntry]
    /\ tagSetAt = [i \in InstanceIDs |-> NoEntry]
    /\ getRes = [kind |-> "none"]

ClientIdle ==
    /\ muReaders = 0
    /\ muWriter = FALSE

\* no tag lookup is running and none has returned yet
TagsIdle ==
    /\ instanceIDs = [t \in Tasks |-> {}]
    /\ tagsMap = [t \in Tasks |-> EmptyTagsMap]
    /\ uncachedIDs = [t \in Tasks |-> {}]
    /\ uncachedSet = [t \in Tasks |-> {}]
    /\ regionsLeft = [t \in Tasks |-> {}]
    /\ region = [t \in Tasks |-> NoRegion]
    /\ listed = [t \in Tasks |-> NothingListed]
    /\ failedRegions = [t \in Tasks |-> {}]
    /\ seen = [t \in Tasks |-> {}]
    /\ prev = [present |-> FALSE]

\* no Collect is running
CollectorIdle ==
    /\ cpc = "idle"
    /\ idx = 1
    /\ errorCount = 0
    /\ emitted = {}
    /\ collRes = NoError
    /\ fetched = <<>>
    /\ metricData = <<>>
    /\ gpc = <<>>
    /\ semaphore = 0
    /\ errorCh = 0
    /\ scrapeErrors = 0
    /\ scrapeDuration = 0
    /\ lastScrape = -1

\* the goroutine and the Collect of a collector no scrape has started
NoCollect ==
    [pc |-> "none", calls |-> 0, idx |-> 1, errorCount |-> 0, res |-> "none",
     scrapeErrors |-> 0, scrapeDuration |-> 0, lastScrape |-> -1]

\* a call of Exporter.Collect that has not been made
NoScrape == [pc |-> "idle", errorCount |-> 0]

\* an Exporter that has not been scraped
ExporterIdle ==
    /\ spc = "idle"
    /\ sctx = "none"
    /\ up = 0
    /\ totalScrapes = 0
    /\ eScrapeErrors = 0
    /\ eScrapeDuration = 0
    /\ lastScrapeTime = -1
    /\ lastScrapeError = 0
    /\ eErrorCount = 0
    /\ eErrorCh = 0
    /\ sent = <<>>
    /\ col = [s \in Services |-> NoCollect]
    /\ scrape2 = NoScrape

\* the Exporter of the other specifications: every service disabled, no scrape
ScrapeIdle ==
    /\ services = [s \in Services |-> [Enabled |-> FALSE, Metrics |-> <<>>]]
    /\ ExporterIdle

\* the collector of the client's own specifications: Redis without metrics
NoMetrics ==
    /\ service = "redis"
    /\ config = [Enabled |-> TRUE, Metrics |-> <<>>]

Init ==
    /\ NewRateLimiter
    /\ TasksIdle
    /\ CachesEmpty
    /\ ClientIdle
    /\ TagsIdle
    /\ CollectorIdle
    /\ ScrapeIdle
    /\ NoMetrics

\* ---- the rate limiter with tasks calling Wait and Close directly
NextRL ==
    \/ TickerFire
    \/ RefillCtxDone
    \/ RefillTick
    \/ RefillSend
    \/ RefillHandOff
    \/ CloseCall
    \/ CloseCancel
    \/ CloseStop
    \/ \E t \in Tasks : WaitCall(t)
    \/ \E t \in Tasks : TimerFire(t)
    \/ \E t \in Tasks : CancelCtx(t)
    \/ \E t \in Tasks : WaitToken(t)
    \/ \E t \in Tasks : WaitDone(t)
    \/ \E t \in Tasks : WaitReturn(t)

SpecRL == Init /\ [][NextRL]_vars

\* time passes, so the armed timer of a Wait fires, and the Go scheduler runs a
\* goroutine whose select has a ready case: a Wait in its select keeps moving
FairSpecRL ==
    /\ SpecRL
    /\ \A t \in Tasks : WF_vars(TimerFire(t) \/ WaitToken(t) \/ WaitDone(t))

\* ================================================= claims: RateLimiter

\* C1: with burst B >= 1 and no token added by a refill so far, the B tokens of
\* the initial fill are handed out one per successful Wait: while fewer than B
\* Waits have succeeded a Wait with a live context can only succeed (a token is
\* there, the Done case is not ready), and once B have succeeded no Wait can
\* succeed before a refill adds a token.
C1_BurstThenWait ==
    (burst >= 1 /\ added = 0) =>
        /\ succ <= burst
        /\ tokens = burst - succ
        /\ \A t \in Tasks :
              (pc[t] = "select" /\ ctxErr[t] = "none") =>
                  IF succ < burst
                  THEN ENABLED WaitToken(t) /\ ~ENABLED WaitDone(t)
                  ELSE ~ENABLED WaitToken(t)

\* the (B+1)-th Wait is blocked in its select after B successes and no refill
C1_Witness ==
    /\ burst >= 1
    /\ added = 0
    /\ succ = burst
    /\ \E t \in Tasks : pc[t] = "select" /\ ctxErr[t] = "none"

\* C2: once Close has returned, no Wait returns nil: every Wait that leaves
\* its select returns an error.
C2_WaitFailsAfterClose ==
    [][\A t \in Tasks :
          (closed /\ pc[t] = "select" /\ pc'[t] = "waited")
              => waitRes'[t] \in {"canceled", "deadline"}]_vars

\* C3: every Wait that reached its select returns; it returns nil only by
\* taking one token (from the channel, or handed over directly when the
\* channel is unbuffered), and it returns an error only when its context is
\* cancelled or its timer has fired, and then no token moves.
C3_WaitReturns ==
    /\ \A t \in Tasks : (pc[t] = "select") ~> (pc[t] = "waited")
    /\ [][\A t \in Tasks :
            (pc[t] = "select" /\ pc'[t] = "waited") =>
                /\ waitRes'[t] \in {"nil", "canceled", "deadline"}
                /\ waitRes'[t] = "nil" =>
                      /\ succ' = succ + 1
                      /\ \/ tokens' = tokens - 1 /\ added' = added
                         \/ burst = 0 /\ tokens' = tokens /\ added' = added + 1
                /\ waitRes'[t] # "nil" =>
                      /\ ctxErr[t] = waitRes'[t]
                      /\ tokens' = tokens
                      /\ succ' = succ
                      /\ added' = added]_vars

\* a Wait has returned the deadline error because its timer fired while no token was there
C3_Witness ==
    \E t \in Tasks :
        /\ pc[t] = "waited"
        /\ waitRes[t] = "deadline"
        /\ tokens = 0

\* C4: the channel never holds more than burst tokens; the inner select of the
\* refill loop is never blocked, and when the channel is full it leaves the
\* tokens as they are and goes back to the outer select.
C4_TokensBounded ==
    /\ [](/\ tokens \in 0..burst
          /\ refillPc = "inner" => ENABLED (RefillSend \/ RefillHandOff))
    /\ [][(refillPc = "inner" /\ refillPc' # "inner" /\ tokens = burst)
              => (tokens' = tokens /\ refillPc' = "outer")]_vars

\* a tick was taken while the channel was full and has been dropped
C4_Witness ==
    /\ burst >= 1
    /\ tokens = burst
    /\ ticks > 0
    /\ tickerC = 0
    /\ refillPc = "outer"
    /\ added = 0
    /\ succ = 0

\* C5: the Waits that succeeded never outnumber burst plus the ticks delivered
C5_AdmissionCapped == succ <= burst + ticks

\* the cap is reached after refills: every initial and every refilled token was used
C5_Witness ==
    /\ burst >= 1
    /\ ticks >= 1
    /\ succ = burst + ticks

\* ---- the metric cache under direct Get/Set/Clear calls while time passes
NextCache ==
    \/ Advance
    \/ \E k \in Keys : McGet(k)
    \/ \E k \in Keys, d \in Data : McSet(k, d)
    \/ McClear

SpecCache == Init /\ [][NextCache]_vars

\* ---- the tag cache under direct Get/Set calls while time passes
NextTagCache ==
    \/ Advance
    \/ \E i \in InstanceIDs : TcGet(i)
    \/ \E i \in InstanceIDs, tags \in TagSets : TcSet(i, tags)

SpecTagCache == Init /\ [][NextTagCache]_vars

\* the goroutines that call GetMetricData and Health in SpecFetch
Fetchers == {1}

\* ---- a task calling GetMetricData and Health while Client.Close may run
NextFetch ==
    \/ TickerFire
    \/ RefillCtxDone
    \/ RefillTick
    \/ RefillSend
    \/ RefillHandOff
    \/ ClientCloseCall
    \/ ClientCloseLock
    \/ CloseCancel
    \/ CloseStop
    \/ ClientCloseUnlock
    \/ Advance
    \/ \E t \in Fetchers, n \in Namespaces, m \in MetricNames : GetMetricDataCall(t, n, m)
    \/ \E t \in Fetchers : TimerFire(t)
    \/ \E t \in Fetchers : CancelCtx(t)
    \/ \E t \in Fetchers : WaitToken(t)
    \/ \E t \in Fetchers : WaitDone(t)
    \/ \E t \in Fetchers : GetMetricDataWaitFailed(t)
    \/ \E t \in Fetchers : GetMetricDataRemote(t)
    \/ \E t \in Fetchers : GetMetricDataRemoteFailed(t)
    \/ \E t \in Fetchers, d \in Data : GetMetricDataRemoteOk(t, d)
    \/ \E t \in Fetchers : HealthCall(t)
    \/ \E t \in Fetchers : HealthReturn(t)
    \/ \E t \in Fetchers : Return(t)

\* the client is built with rate_limit.burst 0 or 1, so that a fetch finds the
\* bucket empty as soon as one token is out
InitFetch == Init /\ burst <= 1

SpecFetch == InitFetch /\ [][NextFetch]_vars

\* the goroutine that calls GetSLBInstanceTags in SpecTags
TagCallers == {1}

\* ---- a task calling GetSLBInstanceTags while the bucket is refilled
NextTags ==
    \/ TickerFire
    \/ RefillTick
    \/ RefillSend
    \/ \E t \in TagCallers, ids \in SUBSET InstanceIDs : GetSLBInstanceTagsCall(t, ids)
    \/ \E t \in TagCallers, r \in Regions : GetSLBInstanceTagsRegion(t, r)
    \/ \E t \in TagCallers : TimerFire(t)
    \/ \E t \in TagCallers : CancelCtx(t)
    \/ \E t \in TagCallers : WaitToken(t)
    \/ \E t \in TagCallers : WaitDone(t)
    \/ \E t \in TagCallers : GetSLBInstanceTagsWaitFailed(t)
    \/ \E t \in TagCallers : GetSLBInstanceTagsListFailed(t)
    \/ \E t \in TagCallers, resp \in Responses : GetSLBInstanceTagsListOk(t, resp)
    \/ \E t \in TagCallers : GetSLBInstanceTagsFinish(t)
    \/ \E t \in TagCallers : Return(t)

\* the client is built with a rate_limit.burst of at least 1
InitTags == Init /\ burst >= 1

SpecTags == InitTags /\ [][NextTags]_vars

\* the goroutine of SLBCollector.Collect
Collectors == {1}

\* ---- one collector running one Collect, within one refill interval
NextCollect ==
    \/ CollectCall
    \/ \E o \in FetchOutcomes(CollectPayloads) : RedisCollectMetric(o)
    \/ \E t \in Collectors, o \in FetchOutcomes(CollectPayloads) : SLBCollectFetch(t, o)
    \/ \E t \in Collectors : SLBCollectTags(t)
    \/ \E t \in Collectors, r \in Regions : GetSLBInstanceTagsRegion(t, r)
    \/ \E t \in Collectors : TimerFire(t)
    \/ \E t \in Collectors : CancelCtx(t)
    \/ \E t \in Collectors : WaitToken(t)
    \/ \E t \in Collectors : WaitDone(t)
    \/ \E t \in Collectors : GetSLBInstanceTagsWaitFailed(t)
    \/ \E t \in Collectors : GetSLBInstanceTagsListFailed(t)
    \/ \E t \in Collectors, resp \in Responses : GetSLBInstanceTagsListOk(t, resp)
    \/ \E t \in Collectors : GetSLBInstanceTagsFinish(t)
    \/ \E t \in Collectors : SLBCollectEmit(t)
    \/ \E t \in Collectors : SLBTagsReturn(t)
    \/ CollectReturn
    \/ \E g \in 1..MaxMetrics : GoAcquire(g)
    \/ \E g \in 1..MaxMetrics, o \in FetchOutcomes(CollectPayloads) : GoCollectMetric(g, o)
    \/ RDSCollectReturn

\* a collector of any service, enabled or not, with any metric list, on a
\* client with a full bucket
InitCollect ==
    /\ NewRateLimiter
    /\ burst = MaxBurst
    /\ TasksIdle
    /\ CachesEmpty
    /\ ClientIdle
    /\ TagsIdle
    /\ CollectorIdle
    /\ ScrapeIdle
    /\ service \in Services
    /\ config \in [Enabled : BOOLEAN, Metrics : MetricLists]

SpecCollect == InitCollect /\ [][NextCollect]_vars

\* ---- one collector with one metric whose response is one data point
NextValue ==
    \/ CollectCall
    \/ \E o \in FetchOutcomes(ValuePayloads) : RedisCollectMetric(o)
    \/ \E t \in Collectors, o \in FetchOutcomes(ValuePayloads) : SLBCollectFetch(t, o)
    \/ CollectReturn
    \/ \E g \in 1..MaxMetrics : GoAcquire(g)
    \/ \E g \in 1..MaxMetrics, o \in FetchOutcomes(ValuePayloads) : GoCollectMetric(g, o)
    \/ RDSCollectReturn

InitValue ==
    /\ NewRateLimiter
    /\ burst = MaxBurst
    /\ TasksIdle
    /\ CachesEmpty
    /\ ClientIdle
    /\ TagsIdle
    /\ CollectorIdle
    /\ ScrapeIdle
    /\ service \in Services
    /\ config \in [Enabled : {TRUE}, Metrics : {m \in MetricLists : Len(m) = 1}]

SpecValue == InitValue /\ [][NextValue]_vars

\* tag sets with one tag of any key the label function may meet: the three
\* allow-listed keys in either casing and a key outside the list
LabelTagSets == {"", "team", "Team", "group", "Group", "name", "Name", "env"}

\* ---- the SLB collector on a client whose tag cache holds every instance
NextLabels ==
    \/ CollectCall
    \/ \E t \in Collectors, o \in FetchOutcomes(CollectPayloads) : SLBCollectFetch(t, o)
    \/ \E t \in Collectors : SLBCollectTags(t)
    \/ \E t \in Collectors : SLBCollectEmit(t)
    \/ \E t \in Collectors : SLBTagsReturn(t)
    \/ CollectReturn

\* earlier lookups have put the tags of every instance in c.tagCache
InitLabels ==
    /\ NewRateLimiter
    /\ burst = MaxBurst
    /\ TasksIdle
    /\ ClientIdle
    /\ TagsIdle
    /\ CollectorIdle
    /\ ScrapeIdle
    /\ now = 0
    /\ mcache = [k \in Keys |-> NoEntry]
    /\ lastSet = [k \in Keys |-> NoEntry]
    /\ getRes = [kind |-> "none"]
    /\ tcache \in [InstanceIDs -> {[present |-> TRUE, tags |-> g] : g \in LabelTagSets}]
    /\ tagSetAt = [i \in InstanceIDs |-> [present |-> TRUE, at |-> 0]]
    /\ service = "slb"
    /\ config \in [Enabled : {TRUE}, Metrics : {m \in MetricLists : Len(m) >= 1}]

SpecLabels == InitLabels /\ [][NextLabels]_vars

\* the response an earlier scrape has left in the cache: one data point
CachedResponse == DatapointsOf(<<MetricDataOf("lb1", 0, 7, 12)>>)

\* how a GetMetricData call goes on that client: a hit returns the cached
\* response, a miss ends in a failed Wait
RDSOutcomes == {[kind |-> "waitfail"], [kind |-> "ok", data |-> CachedResponse]}

\* ---- RDS Collect with more metric names than maxConcurrent, on a client
\* whose bucket is empty and whose cache holds a fresh response for the first
\* metric name only: a fetch of that name succeeds, a fetch of the other ends
\* in a failed Wait
NextRDS ==
    \/ CollectCall
    \/ \E g \in 1..MaxRDSMetrics : GoAcquire(g)
    \/ \E g \in 1..MaxRDSMetrics, o \in RDSOutcomes : GoCollectMetric(g, o)
    \/ RDSCollectReturn

InitRDS ==
    /\ NewRateLimiter
    /\ burst = 0
    /\ TasksIdle
    /\ ClientIdle
    /\ TagsIdle
    /\ CollectorIdle
    /\ ScrapeIdle
    /\ now = 0
    /\ mcache = [k \in Keys |->
                    IF k = CacheKey(Namespace, <<"a">>)
                    THEN [present |-> TRUE, Data |-> CachedResponse,
                          Timestamp |-> 0, TTL |-> MetricTTL]
                    ELSE NoEntry]
    /\ lastSet = [k \in Keys |->
                     IF k = CacheKey(Namespace, <<"a">>)
                     THEN [present |-> TRUE, data |-> CachedResponse, at |-> 0]
                     ELSE NoEntry]
    /\ tcache = [i \in InstanceIDs |-> NoEntry]
    /\ tagSetAt = [i \in InstanceIDs |-> NoEntry]
    /\ getRes = [kind |-> "none"]
    /\ service = "rds"
    /\ config \in [Enabled : {TRUE},
                   Metrics : {[i \in 1..n |-> IF i % 2 = 1 THEN <<"a">> ELSE <<"b">>]
                                 : n \in 0..MaxRDSMetrics}]

SpecRDS == InitRDS /\ [][NextRDS]_vars

\* a step of a goroutine of collectMetricsConcurrently, or of Collect after them
RDSStep ==
    \/ \E g \in 1..MaxRDSMetrics : GoAcquire(g)
    \/ \E g \in 1..MaxRDSMetrics, o \in RDSOutcomes : GoCollectMetric(g, o)
    \/ RDSCollectReturn

\* ---- one scrape of an Exporter, within one refill interval
NextScrape ==
    \/ ExporterCollectCall
    \/ ScrapeDeadline
    \/ \E failed \in BOOLEAN : ExporterHealth(failed)
    \/ \E c \in Services : CollectorCall(c)
    \/ \E c \in Services, o \in ScrapeOutcomes : CollectorMetric(c, o)
    \/ \E c \in Services : CollectorReturn(c)
    \/ ExporterFinish

\* the metric lists of the services of the scrape runs: the first n names of
\* the list a, b, a, ...
ScrapeMetricLists ==
    {[i \in 1..n |-> IF i % 2 = 1 THEN <<"a">> ELSE <<"b">>] : n \in 0..MaxScrapeMetrics}

\* an Exporter with any services enabled, each with any metric list, on a
\* client with a full bucket
InitScrape ==
    /\ NewRateLimiter
    /\ burst = MaxBurst
    /\ TasksIdle
    /\ CachesEmpty
    /\ ClientIdle
    /\ TagsIdle
    /\ CollectorIdle
    /\ NoMetrics
    /\ ExporterIdle
    /\ services \in [Services -> [Enabled : BOOLEAN, Metrics : ScrapeMetricLists]]
    /\ \A s \in Services : ~services[s].Enabled => services[s].Metrics = <<>>

SpecScrape == InitScrape /\ [][NextScrape]_vars

\* a step of a goroutine of the scrape
ScrapeStep ==
    \/ \E failed \in BOOLEAN : ExporterHealth(failed)
    \/ \E c \in Services : CollectorCall(c)
    \/ \E c \in Services, o \in ScrapeOutcomes : CollectorMetric(c, o)
    \/ \E c \in Services : CollectorReturn(c)
    \/ ExporterFinish

\* the Go scheduler does not stop while a goroutine of the scrape can take a
\* step, and a remote call that does not hang returns
FairSpecScrape == SpecScrape /\ WF_vars(ScrapeStep)

\* ---- two calls of Exporter.Collect at the same time
NextScrapes ==
    \/ ExporterCollectCall
    \/ \E failed \in BOOLEAN : ExporterHealth(failed)
    \/ \E c \in Services : CollectorCall(c)
    \/ \E c \in Services, o \in ScrapeOutcomes : CollectorMetric(c, o)
    \/ \E c \in Services : CollectorReturn(c)
    \/ ExporterFinish
    \/ Scrape2Call
    \/ \E failed \in BOOLEAN : Scrape2Health(failed)
    \/ \E n \in 0..Cardinality(Services) : Scrape2Finish(n)

SpecScrapes == InitScrape /\ [][NextScrapes]_vars

\* the goroutines that call GetMetricData at the same time
ConcurrentFetchers == {1, 2}

\* ---- two tasks calling GetMetricData at the same time, within one refill
\* interval, while Client.Close may run
NextFetch2 ==
    \/ ClientCloseCall
    \/ ClientCloseLock
    \/ CloseCancel
    \/ CloseStop
    \/ ClientCloseUnlock
    \/ Advance
    \/ \E t \in ConcurrentFetchers, n \in Namespaces, m \in MetricNames :
          GetMetricDataCall(t, n, m)
    \/ \E t \in ConcurrentFetchers : WaitToken(t)
    \/ \E t \in ConcurrentFetchers : WaitDone(t)
    \/ \E t \in ConcurrentFetchers : GetMetricDataWaitFailed(t)
    \/ \E t \in ConcurrentFetchers : GetMetricDataRemote(t)
    \/ \E t \in ConcurrentFetchers : GetMetricDataRemoteFailed(t)
    \/ \E t \in ConcurrentFetchers, d \in Data : GetMetricDataRemoteOk(t, d)
    \/ \E t \in ConcurrentFetchers : Return(t)

\* the client is built with a full bucket
InitFetch2 == Init /\ burst = MaxBurst

SpecFetch2 == InitFetch2 /\ [][NextFetch2]_vars

\* ================================================= claims: caches

\* C7: a Get of a key that was Set no longer than the TTL ago returns the value
\* of the latest Set of that key with found = true (whatever Sets of other
\* keys, sweeps and earlier Gets happened in between).
C7_GetAfterSet ==
    (/\ getRes.kind = "metric"
     /\ lastSet[getRes.key].present
     /\ now - lastSet[getRes.key].at <= MetricTTL)
        => getRes.r = [data |-> lastSet[getRes.key].data, found |-> TRUE]

\* a Get returned the value of a second Set of its key, at the last fresh moment
C7_Witness ==
    /\ getRes.kind = "metric"
    /\ lastSet[getRes.key].present
    /\ lastSet[getRes.key].at > 0
    /\ now - lastSet[getRes.key].at = MetricTTL
    /\ getRes.r.found

\* C8: a Get of a key whose latest Set is older than the TTL returns
\* found = false, and no Get changes the map: an expired entry stays in it.
C8_ExpiredNotFound ==
    /\ []((/\ getRes.kind = "metric"
           /\ lastSet[getRes.key].present
           /\ now - lastSet[getRes.key].at > MetricTTL)
              => ~getRes.r.found)
    /\ [][(getRes'.kind = "metric" /\ getRes' # getRes) => mcache' = mcache]_vars

\* a Get missed on an expired entry that is still in the map
C8_Witness ==
    /\ getRes.kind = "metric"
    /\ ~getRes.r.found
    /\ mcache[getRes.key].present
    /\ now - mcache[getRes.key].Timestamp > MetricTTL

\* C9: a TagCache.Get of an ID whose tags were stored longer than the tag TTL
\* ago returns found = false.
C9_TagEntriesExpire ==
    (/\ getRes.kind = "tag"
     /\ tagSetAt[getRes.key].present
     /\ now - tagSetAt[getRes.key].at > TagTTL)
        => ~getRes.r.found

\* ================================================= claims: Client

\* C6: every remote call is paid for by a token taken by the same operation:
\* no operation has issued more remote calls than it has taken tokens (so the
\* remote calls issued never outnumber the tokens consumed).
C6_RemoteCallsAdmitted == \A t \in Tasks : opRem[t] <= opTok[t]

\* C10: a GetMetricData call that finds an unexpired entry under its cache key
\* returns at once with that entry's data and no error; it takes no token,
\* issues no remote call and leaves the cache as it was.
C10_CacheHitIsFree ==
    [][\A t \in Tasks :
          (/\ pc[t] = "idle"
           /\ op'[t] = "GetMetricData"
           /\ mcache[key'[t]].present
           /\ now - mcache[key'[t]].Timestamp <= mcache[key'[t]].TTL)
              => /\ pc'[t] = "ret"
                 /\ result'[t] = [err |-> FALSE, data |-> mcache[key'[t]].Data]
                 /\ opTok'[t] = 0
                 /\ opRem'[t] = 0
                 /\ tokens' = tokens
                 /\ succ' = succ
                 /\ mcache' = mcache]_vars

\* a GetMetricData has returned the cached data without a token or a remote call
C10_Witness ==
    \E t \in Tasks :
        /\ pc[t] = "ret"
        /\ op[t] = "GetMetricData"
        /\ ~result[t].err
        /\ opTok[t] = 0
        /\ opRem[t] = 0
        /\ mcache[key[t]].present
        /\ result[t].data = mcache[key[t]].Data


\* C11: a GetMetricData call that misses the cache and succeeds goes through
\* its steps in this order: it takes exactly one token, then issues exactly
\* one remote call, then stores the response under its cache key with the
\* current time, then returns that response; no step before the return
\* touches the cache, and a remote call is never out before the token is taken.
C11_MissOrder ==
    /\ [](\A t \in Fetchers :
            (op[t] = "GetMetricData" /\ opRem[t] > 0) => (opTok[t] = 1 /\ opRem[t] = 1))
    /\ [][\A t \in Fetchers :
            /\ (/\ op[t] = "GetMetricData"
                /\ pc[t] = "select"
                /\ pc'[t] = "waited"
                /\ waitRes'[t] = "nil")
                   => /\ opTok[t] = 0
                      /\ opTok'[t] = 1
                      /\ opRem'[t] = 0
                      /\ mcache' = mcache
            /\ (/\ op[t] = "GetMetricData"
                /\ pc[t] # "remote"
                /\ pc'[t] = "remote")
                   => /\ pc[t] = "waited"
                      /\ opTok[t] = 1
                      /\ opRem[t] = 0
                      /\ opRem'[t] = 1
                      /\ mcache' = mcache
            /\ (/\ op[t] = "GetMetricData"
                /\ pc[t] = "remote"
                /\ pc'[t] = "ret"
                /\ ~result'[t].err)
                   => /\ opTok'[t] = 1
                      /\ opRem'[t] = 1
                      /\ mcache' = [mcache EXCEPT ![key[t]] =
                                       [present |-> TRUE, Data |-> result'[t].data,
                                        Timestamp |-> now, TTL |-> MetricTTL]]]_vars

\* a miss has succeeded: one token, one remote call, the response is cached
C11_Witness ==
    \E t \in Fetchers :
        /\ pc[t] = "ret"
        /\ op[t] = "GetMetricData"
        /\ ~result[t].err
        /\ opTok[t] = 1
        /\ opRem[t] = 1
        /\ mcache[key[t]].present
        /\ mcache[key[t]].Data = result[t].data

\* C12: a GetMetricData call that fails returns an error and has written
\* nothing to the cache: the only step of a call that changes the cache is the
\* one that returns without error. A call that fails on the rate limiter has
\* issued no remote call, one that fails on the remote call has issued exactly
\* one, and after the failure the call does nothing but return.
C12_FailureLeavesCache ==
    [][\A t \in Fetchers :
          /\ (/\ op[t] = "GetMetricData"
              /\ pc[t] # "ret"
              /\ pc'[t] = "ret"
              /\ result'[t].err)
                 => /\ mcache' = mcache
                    /\ pc[t] \in {"waited", "remote"}
                    /\ (pc[t] = "waited")
                          => (waitRes[t] \in {"canceled", "deadline"} /\ opRem'[t] = 0)
                    /\ (pc[t] = "remote") => (opRem'[t] = 1)
          /\ (op[t] = "GetMetricData" /\ mcache' # mcache)
                 => (pc[t] = "remote" /\ pc'[t] = "ret" /\ ~result'[t].err)
          /\ (op[t] = "GetMetricData" /\ pc[t] = "ret" /\ result[t].err)
                 => (pc'[t] \in {"ret", "idle"} /\ opRem'[t] \in {0, opRem[t]})]_vars

\* a remote call has failed while another key is cached: the failed call's key
\* has no fresh entry
C12_Witness ==
    \E t \in Fetchers :
        /\ pc[t] = "ret"
        /\ op[t] = "GetMetricData"
        /\ result[t].err
        /\ opRem[t] = 1
        /\ ~mcache[key[t]].present
        /\ \E k \in Keys : mcache[k].present

\* ================================================= claims: tag lookup

\* C13: in a GetSLBInstanceTags call every requested ID that is in the tag
\* cache is answered with the cached tags and is not among the uncached IDs;
\* only uncached IDs are ever outstanding or resolved by a listing; a token or
\* a remote call is spent only when some ID was uncached, and a call whose IDs
\* are all cached returns at once, with no error, no token and no remote call.
C13_CachedIDsNeedNoListing ==
    /\ [](\A t \in TagCallers :
            (op[t] = "GetSLBInstanceTags")
               => /\ uncachedSet[t] \subseteq uncachedIDs[t]
                  /\ seen[t] \subseteq uncachedIDs[t]
                  /\ \A id \in instanceIDs[t] \ uncachedIDs[t] :
                        /\ tagsMap[t][id].present
                        /\ tagsMap[t][id] = tcache[id]
                  /\ (opTok[t] > 0 \/ opRem[t] > 0) => uncachedIDs[t] # {})
    /\ [][\A t \in TagCallers :
            (pc[t] = "idle" /\ op'[t] = "GetSLBInstanceTags")
               => /\ uncachedIDs'[t] = {id \in instanceIDs'[t] : ~tcache[id].present}
                  /\ \A id \in instanceIDs'[t] :
                        tcache[id].present =>
                            tagsMap'[t][id] = [present |-> TRUE, tags |-> tcache[id].tags]
                  /\ (\A id \in instanceIDs'[t] : tcache[id].present)
                        => /\ pc'[t] = "ret"
                           /\ ~result'[t].err
                           /\ opTok'[t] = 0
                           /\ opRem'[t] = 0
                           /\ tokens' = tokens
                           /\ succ' = succ]_vars

\* a lookup of both IDs, one of them with tags, was answered from the cache alone
C13_Witness ==
    \E t \in TagCallers :
        /\ pc[t] = "ret"
        /\ op[t] = "GetSLBInstanceTags"
        /\ instanceIDs[t] = InstanceIDs
        /\ uncachedIDs[t] = {}
        /\ \E id \in InstanceIDs : tagsMap[t][id].tags # EmptyTags
        /\ opTok[t] = 0
        /\ opRem[t] = 0

\* C14: a GetSLBInstanceTags call that follows a returned call with the same
\* set of IDs issues no remote call, whatever the first call returned.
C14_SecondCallIsFree ==
    \A t \in TagCallers :
        (/\ op[t] = "GetSLBInstanceTags"
         /\ prev.present
         /\ prev.ids = instanceIDs[t])
            => opRem[t] = 0

\* C15: within one GetSLBInstanceTags call no region is listed more than once,
\* a token is taken and a region is listed only while some ID is outstanding,
\* and once no ID is outstanding the next step of the call is its return,
\* which takes no token and lists no region.
C15_RegionsOnceAndEarlyExit ==
    /\ [](\A t \in TagCallers : \A r \in Regions : listed[t][r] <= 1)
    /\ [](\A t \in TagCallers :
            (op[t] = "GetSLBInstanceTags" /\ uncachedSet[t] = {})
               => pc[t] \in {"regions", "ret"})
    /\ [][\A t \in TagCallers :
            /\ (/\ op[t] = "GetSLBInstanceTags"
                /\ (\/ opTok'[t] > opTok[t]
                    \/ opRem'[t] > opRem[t]
                    \/ \E r \in Regions : listed'[t][r] > listed[t][r]))
                   => uncachedSet[t] # {}
            /\ (/\ op[t] = "GetSLBInstanceTags"
                /\ pc[t] = "regions"
                /\ uncachedSet[t] = {}
                /\ pc'[t] # pc[t])
                   => /\ pc'[t] = "ret"
                      /\ ~result'[t].err
                      /\ opTok'[t] = opTok[t]
                      /\ opRem'[t] = opRem[t]
                      /\ tokens' = tokens
                      /\ listed'[t] = listed[t]]_vars

\* both IDs were uncached and were resolved by the first region listed: the
\* call returned with one token, one listing and the other region not visited
C15_Witness ==
    \E t \in TagCallers :
        /\ pc[t] = "ret"
        /\ op[t] = "GetSLBInstanceTags"
        /\ uncachedIDs[t] = InstanceIDs
        /\ uncachedSet[t] = {}
        /\ regionsLeft[t] # {}
        /\ opTok[t] = 1
        /\ opRem[t] = 1

\* C16: when a GetSLBInstanceTags call returns without error, every requested
\* ID is in the result and in the tag cache, and every uncached ID that no
\* listing of the call contained is there with the empty tag set; a following
\* lookup of IDs of that call takes no token and lists no region.
C16_NotFoundCachedEmpty ==
    \A t \in TagCallers :
        /\ (op[t] = "GetSLBInstanceTags" /\ pc[t] = "ret" /\ ~result[t].err)
              => /\ \A id \in instanceIDs[t] :
                       /\ tagsMap[t][id].present
                       /\ tcache[id] = tagsMap[t][id]
                 /\ \A id \in uncachedIDs[t] \ seen[t] :
                       /\ tagsMap[t][id] = [present |-> TRUE, tags |-> EmptyTags]
                       /\ tcache[id] = [present |-> TRUE, tags |-> EmptyTags]
        /\ (/\ op[t] = "GetSLBInstanceTags"
            /\ prev.present
            /\ ~prev.err
            /\ instanceIDs[t] \subseteq prev.ids)
              => (opRem[t] = 0 /\ opTok[t] = 0 /\ uncachedIDs[t] = {})

\* every region was listed without failure and none had one of the uncached
\* IDs: the call has returned it with the empty tag set
C16_Witness ==
    \E t \in TagCallers :
        /\ pc[t] = "ret"
        /\ op[t] = "GetSLBInstanceTags"
        /\ ~result[t].err
        /\ failedRegions[t] = {}
        /\ \A r \in Regions : listed[t][r] = 1
        /\ \E id \in uncachedIDs[t] \ seen[t] :
              tcache[id] = [present |-> TRUE, tags |-> EmptyTags]

\* C17: a failed region listing leaves the call running: the step of the
\* failure sets no error and takes the loop on with the result, the
\* outstanding IDs and the regions still to visit as they were; a call in
\* which a listing failed and no rate-limiter wait failed returns no error,
\* after listing every region unless all IDs got resolved before, and every
\* ID a listing contained is in the result as it is in the cache.
C17_RegionFailureSkipped ==
    /\ [](\A t \in TagCallers :
            (/\ op[t] = "GetSLBInstanceTags"
             /\ pc[t] = "ret"
             /\ failedRegions[t] # {}
             /\ waitRes[t] \notin {"canceled", "deadline"})
               => /\ ~result[t].err
                  /\ (\A r \in Regions : listed[t][r] = 1) \/ uncachedSet[t] = {}
                  /\ \A id \in seen[t] :
                        tagsMap[t][id].present /\ tagsMap[t][id] = tcache[id])
    /\ [][\A t \in TagCallers :
            (op[t] = "GetSLBInstanceTags" /\ failedRegions'[t] # failedRegions[t]
                /\ pc[t] = "waited")
               => /\ pc'[t] = "regions"
                  /\ ~result'[t].err
                  /\ tagsMap'[t] = tagsMap[t]
                  /\ uncachedSet'[t] = uncachedSet[t]
                  /\ uncachedSet'[t] # {}
                  /\ regionsLeft'[t] = regionsLeft[t]
                  /\ tcache' = tcache]_vars

\* a region failed, a later region was listed and had an ID with tags: the
\* call has returned that ID's tags and no error
C17_Witness ==
    \E t \in TagCallers :
        /\ pc[t] = "ret"
        /\ op[t] = "GetSLBInstanceTags"
        /\ ~result[t].err
        /\ failedRegions[t] # {}
        /\ \A r \in Regions : listed[t][r] = 1
        /\ \E id \in seen[t] : tagsMap[t][id].tags # EmptyTags

\* ================================================= claims: collectors

\* C18: when Collect of an enabled collector (Redis, RDS or SLB) returns, every
\* position of its metric list has been fetched; with F the positions whose
\* fetch returned an error or a response that does not decode, the service
\* samples sent are exactly one per data point of every position not in F,
\* Collect returns an error if and only if F is not empty, and that error
\* counts exactly |F| failures.
C18_FailuresCounted ==
    (cpc = "ret" /\ config.Enabled)
       => LET n == Len(config.Metrics)
              F == {i \in 1..n : fetched[i].kind = "got"
                                    /\ (fetched[i].err \/ fetched[i].data.kind = "malformed")}
              pointsOf(i) == IF fetched[i].data.kind = "json"
                             THEN fetched[i].data.points ELSE <<>>
          IN  /\ \A i \in 1..n : fetched[i].kind = "got"
              /\ {<<s.i, s.j, s.data>> : s \in {e \in emitted : e.kind = "service"}}
                    = UNION {{<<i, k, pointsOf(i)[k]>> : k \in 1..Len(pointsOf(i))}
                                : i \in (1..n) \ F}
              /\ collRes.err <=> F # {}
              /\ collRes.err => collRes.count = Cardinality(F)

\* Collect has returned an error counting one failure of two metrics, with a
\* sample of the other metric sent
C18_Witness ==
    /\ cpc = "ret"
    /\ Len(config.Metrics) = 2
    /\ collRes = [err |-> TRUE, count |-> 1]
    /\ \E i \in 1..2 : fetched[i].kind = "got" /\ fetched[i].err
    /\ \E s \in emitted : s.kind = "service"

\* C19: the value of every service sample is the average of its data point if
\* that is not zero, else the maximum if that is not zero, else the sum.
C19_ValuePrecedence ==
    \A s \in emitted :
        (s.kind = "service")
           => s.value = IF s.data.Average # 0 THEN s.data.Average
                        ELSE IF s.data.Maximum # 0 THEN s.data.Maximum
                        ELSE s.data.Sum

\* samples were sent for a data point with average 0 and maximum 7 and sum 12
C19_Witness ==
    \E s \in emitted :
        /\ s.kind = "service"
        /\ s.data.Average = 0
        /\ s.data.Maximum = 7
        /\ s.data.Sum = 12
        /\ s.value = 7

\* C20: when CollectSLBMetric goes on after the tag lookup, whatever the lookup
\* returned, it counts no error and sends one sample for every decoded data
\* point; a lookup that returned an error gives no instance any tags; every
\* sample carries the tags its instance got from the lookup: the value of the
\* instance's Team, Group and Name tag, and the empty string for each of the
\* three the instance does not have.
C20_TagFailureKeepsSamples ==
    [][\A t \in Collectors :
          (cpc = "tags" /\ cpc' = "loop")
             => LET new == emitted' \ emitted
                    tagsOf(id) == IF /\ ~result[t].err
                                     /\ id \in InstanceIDs
                                     /\ tagsMap[t][id].present
                                  THEN tagsMap[t][id].tags ELSE EmptyTags
                    label(id, keys) == IF tagsOf(id) \in keys THEN TagValue ELSE ""
                IN  /\ errorCount' = errorCount
                    /\ {<<s.i, s.j, s.data>> : s \in new}
                          = {<<idx, k, metricData[k]>> : k \in 1..Len(metricData)}
                    /\ \A s \in new :
                          s.labels = <<s.data.InstanceID,
                                       s.data.Protocol, s.data.Port, s.data.Vip,
                                       label(s.data.InstanceID, {"Team", "team"}),
                                       label(s.data.InstanceID, {"Group", "group"}),
                                       label(s.data.InstanceID, {"Name", "name"})>>]_vars

\* ================================================= claims: scrapes

\* C21: every sample of the SLB collector carries, after the instance ID, the
\* value of the instance's Team, Group and Name tag, each looked up under its
\* capitalised and its lower-case key, and the empty string for a key the
\* instance has in neither casing; no other tag shows on the sample.
C21_AllowListedTagsBothCasings ==
    \A s \in emitted :
        (s.kind = "service")
           => LET id == s.data.InstanceID
                  tags == IF id \in InstanceIDs THEN tcache[id].tags ELSE EmptyTags
                  label(keys) == IF tags \in keys THEN TagValue ELSE ""
              IN  s.labels = <<id, s.data.Protocol, s.data.Port, s.data.Vip,
                               label({"Team", "team"}), label({"Group", "group"}),
                               label({"Name", "name"})>>

\* C26: a Wait whose context is cancelled, before the call or while it waits,
\* returns the cancellation error and takes no token, also when a token is in
\* the bucket at that moment.
C26_CancelledWaitTakesNoToken ==
    [][\A t \in Tasks :
          (pc[t] = "select" /\ ctxErr[t] = "canceled" /\ pc'[t] = "waited")
             => (waitRes'[t] = "canceled" /\ tokens' = tokens /\ opTok'[t] = opTok[t])]_vars

\* C27: during an RDS Collect never more than 10 goroutines are inside
\* CollectMetric, with any number of metric names in the list.
C27_AtMostTenInFlight ==
    Cardinality({g \in DOMAIN gpc : gpc[g] = "run"}) <= 10

\* ten fetches are in flight and an eleventh goroutine waits for the semaphore
C27_Witness ==
    /\ cpc = "wait"
    /\ Len(config.Metrics) > 10
    /\ Cardinality({g \in DOMAIN gpc : gpc[g] = "run"}) = 10
    /\ \E g \in DOMAIN gpc : gpc[g] = "start"

\* C28: a call of Collect on a disabled collector returns nil at once; it
\* sends no sample, fetches nothing, takes no token and leaves the collector's
\* counters, its last scrape time, its configuration and the client's caches
\* as they were.
C28_DisabledCollectIsNoOp ==
    [][(cpc = "idle" /\ cpc' # "idle" /\ ~config.Enabled)
          => /\ cpc' = "ret"
             /\ collRes' = NoError
             /\ emitted' = emitted
             /\ fetched' = fetched
             /\ tokens' = tokens
             /\ succ' = succ
             /\ UNCHANGED <<mcache, tcache, opTok, opRem>>
             /\ UNCHANGED <<service, config, errorCount, scrapeErrors, scrapeDuration,
                            lastScrape>>]_vars

\* Collect has returned on a disabled collector that has metric names
C28_Witness ==
    /\ cpc = "ret"
    /\ ~config.Enabled
    /\ Len(config.Metrics) > 0
    /\ collRes = NoError
    /\ emitted = {}

\* C29: when the fetch of a metric succeeds with no data points (empty
\* Datapoints, or an empty list), the collector sends no sample for it and
\* counts no error; a Collect all of whose fetches went that way returns nil.
C29_EmptyResultIsNoFailure ==
    /\ [][\A i \in DOMAIN fetched :
             (/\ i \in DOMAIN fetched'
              /\ fetched[i] = NotFetched
              /\ fetched'[i].kind = "got"
              /\ ~fetched'[i].err
              /\ fetched'[i].data \in {EmptyDatapoints, DatapointsOf(<<>>)})
                 => /\ emitted' = emitted
                    /\ errorCount' = errorCount
                    /\ errorCh' = errorCh
                    /\ scrapeErrors' = scrapeErrors]_vars
    /\ [](( /\ cpc = "ret"
            /\ config.Enabled
            /\ \A i \in DOMAIN fetched :
                  /\ fetched[i].kind = "got"
                  /\ ~fetched[i].err
                  /\ fetched[i].data \in {EmptyDatapoints, DatapointsOf(<<>>)})
              => (collRes = NoError /\ scrapeErrors = 0))

\* Collect has returned nil after both of its metrics came back with no data
\* points, one with empty Datapoints and one with an empty list
C29_Witness ==
    /\ cpc = "ret"
    /\ config.Enabled
    /\ Len(fetched) = 2
    /\ fetched[1] = [kind |-> "got", err |-> FALSE, data |-> EmptyDatapoints]
    /\ fetched[2] = [kind |-> "got", err |-> FALSE, data |-> DatapointsOf(<<>>)]
    /\ collRes = NoError
    /\ emitted = InternalSamples

\* C30: every service sample a collector sends in Collect was made with a
\* descriptor (metric name and label names) that the collector's Describe
\* sends, for the SLB collector as for Redis and RDS.
C30_SamplesAreDescribed ==
    \A s \in emitted : (s.kind = "service") => s.desc \in Describe

\* C22: in a scrape the Collect of every enabled collector is called once, and
\* of no disabled one; when Exporter.Collect returns, every enabled collector's
\* Collect has returned and errorCount is the number of collectors whose
\* Collect returned an error; once a collector has failed the scrape still
\* finishes (unless the remote call of another collector never returns).
C22_CollectorsRunOnceAndAreCounted ==
    /\ [](\A c \in Services :
             /\ col[c].calls <= 1
             /\ ~services[c].Enabled => col[c].calls = 0)
    /\ []((spc = "ret")
             => /\ \A c \in eCollectors :
                      col[c].calls = 1 /\ col[c].pc = "done" /\ col[c].res \in {"nil", "err"}
                /\ eErrorCount = Cardinality({c \in Services : col[c].res = "err"}))
    /\ ((\E c \in Services : col[c].res = "err")
           ~> (spc = "ret" \/ \E c \in Services : col[c].pc = "hung"))

\* a scrape has returned after one collector failed and another did not
C22_Witness ==
    /\ spc = "ret"
    /\ \E c1, c2 \in eCollectors : col[c1].res = "err" /\ col[c2].res = "nil"
    /\ eErrorCount = 1

\* C23: once a collector hangs in a remote call and the deadline of the scrape
\* has passed, Exporter.Collect returns.
C23_HungCollectorDoesNotBlockScrape ==
    ((\E c \in Services : col[c].pc = "hung") /\ sctx = "deadline") ~> (spc = "ret")

\* C24: when Exporter.Collect returns, whether the health probe failed or not,
\* every enabled collector has run, the error counter and its sample are the
\* number of failed collectors (the counter starts at 0), and the error flag
\* and its sample are 1 exactly if a collector failed.
C24_HealthFailureOnlySetsUp ==
    (spc = "ret")
       => LET failures == Cardinality({c \in Services : col[c].res = "err"})
          IN  /\ \A c \in eCollectors : col[c].calls = 1 /\ col[c].pc = "done"
              /\ eErrorCount = failures
              /\ eScrapeErrors = failures
              /\ sent[3] = [name |-> "scrape_errors_total", value |-> failures]
              /\ lastScrapeError = (IF failures > 0 THEN 1 ELSE 0)
              /\ sent[6] = [name |-> "last_scrape_error", value |-> lastScrapeError]

\* C25: a scrape sends nothing of its own before it returns; it sends its six
\* internal metrics, once each, in the step in which it returns, which comes
\* after the health probe and after every collector goroutine is done; and a
\* scrape that was called returns, whichever collectors and metrics failed,
\* unless a remote call never returns.
C25_ScrapeEndsWithInternalSamples ==
    /\ []((spc # "ret") => sent = <<>>)
    /\ []((spc = "ret")
             => /\ [i \in 1..Len(sent) |-> sent[i].name]
                      = <<"up", "scrapes_total", "scrape_errors_total",
                          "scrape_duration_seconds", "last_scrape_timestamp_seconds",
                          "last_scrape_error">>
                /\ \A c \in Services : col[c].pc = (IF services[c].Enabled THEN "done" ELSE "none"))
    /\ [][(sent' # sent)
             => /\ spc = "wait"
                /\ spc' = "ret"
                /\ \A c \in eCollectors : col[c].pc = "done"]_vars
    /\ ((spc # "idle") ~> (spc = "ret" \/ \E c \in Services : col[c].pc = "hung"))

\* a scrape has returned and sent its six metrics after a failed health probe,
\* a failed collector and a collector without failure
C25_Witness ==
    /\ spc = "ret"
    /\ Len(sent) = 6
    /\ up = 0
    /\ \E c1, c2 \in eCollectors : col[c1].res = "err" /\ col[c2].res = "nil"
    /\ \A c \in Services : col[c].pc # "hung"

\* ================================================= claims: frames and shutdown

\* C32: a Set of a key puts in its place, whatever was there (nothing, a fresh
\* or an expired entry), an entry with the value of the Set, the creation time
\* now and the TTL of the cache, which is therefore not expired; every other
\* key keeps its entry.
C32_SetReplacesEntry ==
    [][\A k \in Keys :
          (lastSet'[k] # lastSet[k])
             => /\ mcache'[k] = [present |-> TRUE, Data |-> lastSet'[k].data,
                                 Timestamp |-> now, TTL |-> MetricTTL]
                /\ lastSet'[k].at = now
                /\ MetricCacheGet(mcache', k, now) = [data |-> lastSet'[k].data, found |-> TRUE]
                /\ \A k2 \in Keys \ {k} : mcache'[k2] = mcache[k2]]_vars

\* a key was Set anew after the TTL of its first entry had run out, while the
\* other key keeps its expired entry
C32_Witness ==
    \E k, k2 \in Keys :
        /\ k # k2
        /\ mcache[k].present
        /\ mcache[k].Timestamp = now
        /\ now > MetricTTL
        /\ mcache[k2].present
        /\ now - mcache[k2].Timestamp > MetricTTL
        /\ getRes.kind = "none"

\* C33: Clear deletes every entry whose age is over its TTL and nothing else;
\* every Get, now or at any later time, returns after the Clear what it would
\* have returned without it.
C33_ClearRemovesExpiredOnly ==
    [][McClear
          => /\ \A k \in Keys :
                   mcache'[k] = IF mcache[k].present /\ now - mcache[k].Timestamp > mcache[k].TTL
                                THEN NoEntry ELSE mcache[k]
             /\ \A k \in Keys, t \in now..MaxTime :
                   MetricCacheGet(mcache', k, t) = MetricCacheGet(mcache, k, t)]_vars

\* a Clear has deleted the expired entry of one key and kept the fresh entry of
\* the other
C33_Witness ==
    \E k, k2 \in Keys :
        /\ lastSet[k].present
        /\ ~mcache[k].present
        /\ mcache[k2].present
        /\ now - mcache[k2].Timestamp <= MetricTTL
        /\ getRes.kind = "none"

\* C34: once Close has returned the refill loop puts no more token into the
\* bucket: no step adds a token, by a send or by a hand-over, and the number
\* of tokens in the channel does not go up.
C34_CloseStopsRefill ==
    [][closed => (added' = added /\ tokens' <= tokens)]_vars

\* C35: when a scrape returns, e.lastScrapeError and the last_scrape_error
\* sample are 1 if the health probe of the scrape failed or one of its
\* collectors returned an error, and 0 otherwise.
C35_ErrorFlagTellsScrapeError ==
    (spc = "ret")
       => LET failed == up = 0 \/ \E c \in eCollectors : col[c].res = "err"
          IN  /\ lastScrapeError = (IF failed THEN 1 ELSE 0)
              /\ sent[6] = [name |-> "last_scrape_error", value |-> lastScrapeError]

\* C36: with two calls of Exporter.Collect running at the same time, every
\* step changes e.totalScrapes by 1 for each call that is made in it and by
\* nothing else, and e.scrapeErrors by 1 for a health probe that fails in it
\* plus, for a call that returns in it, the number of its collectors that
\* returned an error, and by nothing else; so neither counter ever goes down,
\* and e.totalScrapes is the number of calls made.
C36_ScrapeCountersExact ==
    /\ [](totalScrapes = (IF spc # "idle" THEN 1 ELSE 0)
                             + (IF scrape2.pc # "idle" THEN 1 ELSE 0))
    /\ [][/\ totalScrapes' - totalScrapes
                = (IF spc = "idle" /\ spc' # "idle" THEN 1 ELSE 0)
                    + (IF scrape2.pc = "idle" /\ scrape2'.pc # "idle" THEN 1 ELSE 0)
          /\ eScrapeErrors' - eScrapeErrors
                = (IF spc = "health" /\ spc' = "wait" /\ up' = 0 THEN 1 ELSE 0)
                    + (IF spc = "wait" /\ spc' = "ret"
                       THEN Cardinality({c \in eCollectors : col[c].res = "err"}) ELSE 0)
                    + (IF scrape2.pc = "health" /\ scrape2'.pc = "wait" /\ up' = 0
                       THEN 1 ELSE 0)
                    + (IF scrape2.pc = "wait" /\ scrape2'.pc = "ret"
                       THEN scrape2'.errorCount ELSE 0)
          /\ totalScrapes' >= totalScrapes
          /\ eScrapeErrors' >= eScrapeErrors]_vars

\* both calls are waiting for their collectors, so they overlap: both were
\* counted, both health probes failed and are counted, and a collector of the
\* first call has returned an error
C36_Witness ==
    /\ spc = "wait"
    /\ scrape2.pc = "wait"
    /\ totalScrapes = 2
    /\ eScrapeErrors = 2
    /\ eErrorCh = 1

\* C37: when the end of a tag lookup writes an ID into c.tagCache with empty
\* tags because no listing had it, every region of c.slbClients was listed in
\* that call and no listing failed.
C37_NegativeCacheNeedsFullListing ==
    [][\A t \in TagCallers, id \in InstanceIDs :
          (/\ pc[t] = "regions"
           /\ pc'[t] = "ret"
           /\ ~tcache[id].present
           /\ tcache'[id].present)
             => /\ tcache'[id].tags = EmptyTags
                /\ failedRegions[t] = {}
                /\ \A r \in Regions : listed[t][r] = 1]_vars

\* C38: when the Wait before a listing fails, the tag lookup returns an error
\* and the result map as it stood; the step writes nothing to c.tagCache; and
\* when the call has returned that way no ID still in uncachedSet is in the
\* cache or in the result, while every ID a listing of the call had resolved
\* is in the cache with the tags the result has for it.
C38_WaitFailureCachesNothing ==
    /\ [][\A t \in TagCallers :
            (/\ op[t] = "GetSLBInstanceTags"
             /\ pc[t] = "waited"
             /\ waitRes[t] \in {"canceled", "deadline"}
             /\ pc'[t] # "waited")
               => /\ pc'[t] = "ret"
                  /\ result'[t].err
                  /\ tagsMap'[t] = tagsMap[t]
                  /\ tcache' = tcache]_vars
    /\ [](\A t \in TagCallers :
            (op[t] = "GetSLBInstanceTags" /\ pc[t] = "ret" /\ result[t].err)
               => /\ \A id \in uncachedSet[t] :
                        ~tcache[id].present /\ ~tagsMap[t][id].present
                  /\ \A id \in seen[t] :
                        tcache[id].present /\ tagsMap[t][id] = tcache[id])

\* a lookup of two IDs has returned the error after a listing resolved one of
\* them: that one is cached, the other is not
C38_Witness ==
    \E t \in TagCallers :
        /\ op[t] = "GetSLBInstanceTags"
        /\ pc[t] = "ret"
        /\ result[t].err
        /\ seen[t] # {}
        /\ uncachedSet[t] # {}
        /\ \A id \in seen[t] : tcache[id].present
        /\ \A id \in uncachedSet[t] : ~tcache[id].present

\* ================================================= claims: concurrent fetches

\* C31: of the GetMetricData calls that run at the same time no two are in
\* the remote call for the same key, and no remote call is in flight for a key
\* whose cached response is fresh.
C31_OneRemoteCallPerKey ==
    /\ \A t1, t2 \in ConcurrentFetchers :
          (t1 # t2 /\ pc[t1] = "remote" /\ pc[t2] = "remote") => key[t1] # key[t2]
    /\ \A t \in ConcurrentFetchers :
          (pc[t] = "remote") => ~MetricCacheGet(mcache, key[t], now).found

\* C39: Client.Close runs c.rateLimiter.Close() only while it holds c.mu and
\* no GetMetricData call is inside its remote call; the read locks held are
\* those of the calls inside the remote call, so a Close that waits for c.mu
\* is held up exactly while such a call is in flight, and not by calls that
\* are waiting in the rate limiter.
C39_CloseWaitsForRemoteCalls ==
    LET inFlight == {t \in ConcurrentFetchers : pc[t] = "remote"}
    IN  /\ muReaders = Cardinality(inFlight)
        /\ (closePc \in {"cancel", "stop", "unlock"}) => (muWriter /\ inFlight = {})
        /\ (rlCtxDone /\ ~closed) => inFlight = {}
        /\ (closePc = "lockwait") => (ENABLED ClientCloseLock <=> inFlight = {})

\* Close holds c.mu and is closing the rate limiter while one caller waits for
\* a token in an empty bucket and the other has returned from its remote call
C39_Witness ==
    /\ closePc = "cancel"
    /\ muWriter
    /\ tokens = 0
    /\ \E t1, t2 \in ConcurrentFetchers :
          /\ pc[t1] = "select"
          /\ pc[t2] = "ret"
          /\ opRem[t2] = 1

\* ================================================= claims: RDS workers

\* C40: collectMetricsConcurrently returns, with no metric name, with few and
\* with more than maxConcurrent: until Collect has returned some goroutine of
\* it can always take a step, and every step brings the return nearer (a
\* goroutine gets its slot, a goroutine finishes, or Collect returns), so the
\* scheduler cannot run it for ever.  While it runs the semaphore holds one
\* slot for every goroutine inside CollectMetric, errorCh holds one error for
\* every goroutine that failed and has room for every goroutine still running,
\* so that no send on it waits.  When Collect has returned every goroutine is
\* done, no slot is held and the count is the number of goroutines whose
\* CollectMetric failed.
C40_RDSCollectTerminates ==
    /\ [](LET failed == {g \in DOMAIN gpc :
                            gpc[g] = "done" /\ DecodeResponse(fetched[g]).err}
              running == {g \in DOMAIN gpc : gpc[g] = "run"}
          IN  /\ (cpc = "wait")
                    => /\ ENABLED RDSStep
                       /\ semaphore = Cardinality(running)
                       /\ errorCh = Cardinality(failed)
                       /\ errorCh + Cardinality(running) <= Len(config.Metrics)
              /\ (cpc = "ret")
                    => /\ \A g \in DOMAIN gpc : gpc[g] = "done"
                       /\ semaphore = 0
                       /\ errorCount = Cardinality(failed)
                       /\ collRes = (IF failed = {} THEN NoError
                                     ELSE [err |-> TRUE, count |-> Cardinality(failed)]))
    /\ [][LET left(p, c) == 2 * Cardinality({g \in DOMAIN p : p[g] = "start"})
                              + Cardinality({g \in DOMAIN p : p[g] = "run"})
                              + (IF c = "wait" THEN 1 ELSE 0)
          IN  (cpc = "wait") => left(gpc', cpc') < left(gpc, cpc)]_vars

\* Collect has returned after more goroutines than the semaphore has slots:
\* those of the cached metric name succeeded, those of the other failed
C40_Witness ==
    /\ cpc = "ret"
    /\ Len(config.Metrics) > maxConcurrent
    /\ semaphore = 0
    /\ collRes.err
    /\ collRes.count = Len(config.Metrics) \div 2
    /\ \E s \in emitted : s.kind = "service"

=============================================================================
